---- MODULE Spec2Model ----
(***************************************************************************)
(* DataStructures::List (src/list.hpp) and DataStructures::OrderedHashTable *)
(* (src/orderhashtable.hpp): a doubly-linked list and the insertion-ordered *)
(* hash table built on it.                                                  *)
(*                                                                          *)
(* A std::string is the sequence of its bytes (<<107, 49>> is "k1").  A     *)
(* List is a record: length_, head_, tail_ and node, the heap nodes it owns *)
(* (node id -> [value_, next_, prev_]); the null pointer is 0.  A bucket    *)
(* list holds Record pointers; no two list nodes ever hold the same         *)
(* pointer, so a node of a bucket list carries the pointee [key_, value_].  *)
(***************************************************************************)
EXTENDS Integers, Sequences, FiniteSets, TLC

(***************************************************************************)
(* Bounds of the model.                                                     *)
(***************************************************************************)
\* Number of filler keys "k1", "k2", ... a client may bulk-load.
NumFillers == 32
\* Values a client stores are 1..MaxVal (int{} = 0 is the default value).
MaxVal == 2
\* The largest capacity a client asks the constructor for.
MaxCap == 65

(***************************************************************************)
(* Arithmetic on naturals wider than 31 bits.  A number is the sequence of  *)
(* its bits, least significant first; products are formed on limbs of       *)
(* LimbBits bits.  This carries the 32-bit accumulator and the IEEE-754     *)
(* doubles of hash_function exactly.                                        *)
(***************************************************************************)
\* Limb products, summed over at most 2^9 columns, stay below 2^31.
LimbBits == (31 - 9) \div 2

RECURSIVE Pow2(_)
Pow2(n) == IF n = 0 THEN 1 ELSE 2 * Pow2(n - 1)

LimbBase == Pow2(LimbBits)

Bit(b, i) == IF i >= 1 /\ i <= Len(b) THEN b[i] ELSE 0

\* The bits of a natural below 2^31, least significant first.
NatToBits(n) == [i \in 1..31 |-> (n \div Pow2(i - 1)) % 2]

\* Position of the highest 1 bit (0 for the number 0).
BitLen(b) == IF \A i \in 1..Len(b) : b[i] = 0 THEN 0
             ELSE CHOOSE i \in 1..Len(b) :
                      b[i] = 1 /\ \A j \in (i + 1)..Len(b) : b[j] = 0

RECURSIVE SumTo(_, _)
\* f[0] + ... + f[n]
SumTo(f, n) == IF n < 0 THEN 0 ELSE f[n] + SumTo(f, n - 1)

\* Limb k (k = 0, 1, ...) of the bit sequence b.
LimbOf(b, k) ==
    SumTo([i \in 0..(LimbBits - 1) |-> Bit(b, LimbBits * k + i + 1) * Pow2(i)],
          LimbBits - 1)

NumLimbs(b) == (Len(b) + LimbBits - 1) \div LimbBits

RECURSIVE Carry(_, _, _)
\* The limbs of the number whose k-th limb sum is c[k]: carries propagated
\* from limb k on, with carry-in cin.
Carry(c, k, cin) ==
    IF k >= Len(c) THEN (IF cin = 0 THEN <<>> ELSE <<cin % LimbBase>> \o Carry(c, k, cin \div LimbBase))
    ELSE LET s == c[k + 1] + cin
         IN  <<s % LimbBase>> \o Carry(c, k + 1, s \div LimbBase)

LimbsAsBits(l) ==
    [i \in 1..(LimbBits * Len(l)) |->
        (l[((i - 1) \div LimbBits) + 1] \div Pow2((i - 1) % LimbBits)) % 2]

\* a * b, schoolbook on limbs.
BitsMul(a, b) ==
    LET na == NumLimbs(a)
        nb == NumLimbs(b)
        col(n) == SumTo([i \in 0..(na - 1) |->
                            IF n - i >= 0 /\ n - i < nb
                            THEN LimbOf(a, i) * LimbOf(b, n - i) ELSE 0],
                        na - 1)
    IN  IF na = 0 \/ nb = 0 THEN <<>>
        ELSE LimbsAsBits(Carry([n \in 1..(na + nb - 1) |-> col(n - 1)], 0, 0))

\* a * 2^n.
BitsShl(a, n) == [i \in 1..(Len(a) + n) |-> IF i <= n THEN 0 ELSE a[i - n]]

\* The low n bits of a (a mod 2^n), padded to n bits.
BitsLow(a, n) == [i \in 1..n |-> Bit(a, i)]

\* a div 2^n.
BitsShr(a, n) == IF n >= Len(a) THEN <<>> ELSE SubSeq(a, n + 1, Len(a))

AnyBit(a, n) == \E i \in 1..n : Bit(a, i) = 1

\* a + 1.
BitsInc(a) ==
    LET z == CHOOSE i \in 1..(Len(a) + 1) :
                 Bit(a, i) = 0 /\ \A j \in 1..(i - 1) : a[j] = 1
    IN  [i \in 1..(IF z > Len(a) THEN z ELSE Len(a)) |->
            IF i < z THEN 0 ELSE IF i = z THEN 1 ELSE a[i]]

\* The value of a bit sequence that is below 2^31.
BitsToNat(b) ==
    LET n == BitLen(b)
    IN  IF n = 0 THEN 0 ELSE SumTo([i \in 0..(n - 1) |-> b[i + 1] * Pow2(i)], n - 1)

(***************************************************************************)
(* IEEE-754 binary64, round to nearest, ties to even: the integer x (a     *)
(* count of units 2^-53) rounded to 53 significant bits.                    *)
(***************************************************************************)
DoubleMantissaBits == 53

RoundDouble(x) ==
    LET bl == BitLen(x)
        sh == bl - DoubleMantissaBits
    IN  IF sh <= 0 THEN x
        ELSE LET q  == BitsShr(x, sh)
                 up == Bit(x, sh) = 1 /\ (AnyBit(x, sh - 1) \/ Bit(q, 1) = 1)
             IN  BitsShl(IF up THEN BitsInc(q) ELSE q, sh)

(***************************************************************************)
(* The hashing macros.                                                      *)
(***************************************************************************)
HASH_CONST_I == 5381
HASH_CONST_I_2 == 33
\* HASH_CONST_D = ((2.23606797749978969 - 1) / 2) is the double
\* 0x3FE3C6EF372FE950 = 16#13C6EF372FE950 * 2^-53; the mantissa in 16-bit
\* limbs, least significant first: 16#E950, 16#372F, 16#C6EF, 16#0013.
HASH_CONST_D == <<59728, 14127, 50927, 19>>

Limb == Pow2(16)

\* The bits of the number with the 16-bit limbs l, least significant first.
Limbs16ToBits(l) ==
    [i \in 1..(16 * Len(l)) |-> (l[((i - 1) \div 16) + 1] \div Pow2((i - 1) % 16)) % 2]

\* One step of the loop of hash_function on the uint32_t key_int, held as
\* [hi, lo] with key_int = hi * 2^16 + lo:
\* key_int = HASH_CONST_I_2 * key_int + (unsigned char) i, modulo 2^32.
Djb2Step(k, byte) ==
    LET lo == HASH_CONST_I_2 * k.lo + byte
        hi == HASH_CONST_I_2 * k.hi + (lo \div Limb)
    IN  [hi |-> hi % Limb, lo |-> lo % Limb]

RECURSIVE Djb2From(_, _)
Djb2From(k, key) == IF key = <<>> THEN k
                    ELSE Djb2From(Djb2Step(k, key[1]), Tail(key))

\* key_int after the loop over the bytes of key.
key_int(key) == Djb2From([hi |-> HASH_CONST_I \div Limb, lo |-> HASH_CONST_I % Limb], key)

\* ceil(size_arr_ * fmod(key_int * HASH_CONST_D, 1)) - 1 as a mathematical
\* integer (-1 when the fractional part is 0), every product rounded as the
\* double arithmetic rounds it.
HashReal(k, size_arr_) ==
    LET kbits == Limbs16ToBits(<<k.lo, k.hi>>)
        \* key_int * HASH_CONST_D in units of 2^-53
        prod  == RoundDouble(BitsMul(kbits, Limbs16ToBits(HASH_CONST_D)))
        \* fmod(., 1): the fractional part, exact
        frac  == BitsLow(prod, DoubleMantissaBits)
        \* size_arr_ * frac
        scal  == RoundDouble(BitsMul(NatToBits(size_arr_), frac))
        whole == BitsToNat(BitsShr(scal, DoubleMantissaBits))
        ceil  == IF AnyBit(scal, DoubleMantissaBits) THEN whole + 1 ELSE whole
    IN  ceil - 1

(***************************************************************************)
(* List<NodeType> (src/list.hpp).  An operation is an operator from a List  *)
(* value to the List value it leaves (and what it returns or throws).       *)
(***************************************************************************)
\* nullptr
Null == 0
\* The largest size_t.  Every size_t the model forms otherwise is far below
\* it, so the largest integer of the model checker stands for 2^64 - 1.
SIZE_MAX == 2147483647

\* List(): length_(0), head_(nullptr), tail_(nullptr).
EmptyList == [length_ |-> 0, head_ |-> Null, tail_ |-> Null, node |-> <<>>]

\* Node(value): value_(value), next_(nullptr), prev_(nullptr).
Node(value) == [value_ |-> value, next_ |-> Null, prev_ |-> Null]

\* new Node: an address not in use (the lowest free one).
NewNode(L) ==
    CHOOSE p \in 1..(Cardinality(DOMAIN L.node) + 1) :
        p \notin DOMAIN L.node /\ \A q \in 1..(p - 1) : q \in DOMAIN L.node

\* delete p
DeleteNode(nodes, p) == [q \in DOMAIN nodes \ {p} |-> nodes[q]]

List_empty(L) == L.length_ = 0

\* length_ - 1 on size_t.
LengthMinus1(L) == IF L.length_ = 0 THEN SIZE_MAX ELSE L.length_ - 1

\* push_front(data) that links the new node at the tail.
List_push_front_AtTail(L, data) ==
    LET new_node == NewNode(L)
        n1 == (new_node :> [Node(data) EXCEPT !.prev_ = L.tail_]) @@ L.node
        n2 == IF L.tail_ # Null
              THEN [n1 EXCEPT ![L.tail_].next_ = new_node] ELSE n1
    IN  [length_ |-> L.length_ + 1,
         head_   |-> IF L.head_ = Null THEN new_node ELSE L.head_,
         tail_   |-> new_node,
         node    |-> n2]

List_push_front(L, data) ==
    LET new_node == NewNode(L)
        n1 == (new_node :> [Node(data) EXCEPT !.next_ = L.head_]) @@ L.node
        n2 == IF L.head_ # Null
              THEN [n1 EXCEPT ![L.head_].prev_ = new_node] ELSE n1
    IN  [length_ |-> L.length_ + 1,
         head_   |-> new_node,
         tail_   |-> IF L.tail_ = Null THEN new_node ELSE L.tail_,
         node    |-> n2]

\* push_back(data) that leaves prev_ of the new node null.
List_push_back_NoPrev(L, data) ==
    LET new_node == NewNode(L)
        n1 == (new_node :> Node(data)) @@ L.node
        n2 == IF L.tail_ # Null
              THEN [n1 EXCEPT ![L.tail_].next_ = new_node] ELSE n1
    IN  [length_ |-> L.length_ + 1,
         head_   |-> IF L.head_ = Null THEN new_node ELSE L.head_,
         tail_   |-> new_node,
         node    |-> n2]

List_push_back(L, data) ==
    LET new_node == NewNode(L)
        n1 == (new_node :> [Node(data) EXCEPT !.prev_ = L.tail_]) @@ L.node
        n2 == IF L.tail_ # Null
              THEN [n1 EXCEPT ![L.tail_].next_ = new_node] ELSE n1
    IN  [length_ |-> L.length_ + 1,
         head_   |-> IF L.head_ = Null THEN new_node ELSE L.head_,
         tail_   |-> new_node,
         node    |-> n2]

\* pop_front() without the test for the empty list: length_-- wraps.
List_pop_front_Unguarded(L, T0) ==
    IF L.head_ = Null
    THEN [list |-> [L EXCEPT !.length_ = SIZE_MAX], ret |-> T0]
    ELSE LET new_front_node == L.node[L.head_].next_
             n1 == IF new_front_node # Null
                   THEN [L.node EXCEPT ![new_front_node].prev_ = Null]
                   ELSE L.node
         IN  [list |-> [length_ |-> L.length_ - 1,
                        head_   |-> new_front_node,
                        tail_   |-> IF new_front_node # Null THEN L.tail_
                                    ELSE new_front_node,
                        node    |-> DeleteNode(n1, L.head_)],
              ret  |-> L.node[L.head_].value_]

\* T0 is NodeType{}, the value an empty list hands out.
List_pop_front(L, T0) ==
    IF List_empty(L) THEN [list |-> L, ret |-> T0]
    ELSE LET new_front_node == L.node[L.head_].next_
             n1 == IF new_front_node # Null
                   THEN [L.node EXCEPT ![new_front_node].prev_ = Null]
                   ELSE L.node
         IN  [list |-> [length_ |-> L.length_ - 1,
                        head_   |-> new_front_node,
                        tail_   |-> IF new_front_node # Null THEN L.tail_
                                    ELSE new_front_node,
                        node    |-> DeleteNode(n1, L.head_)],
              ret  |-> L.node[L.head_].value_]

List_pop_back(L, T0) ==
    IF List_empty(L) THEN [list |-> L, ret |-> T0]
    ELSE LET new_back_node == L.node[L.tail_].prev_
             n1 == IF new_back_node # Null
                   THEN [L.node EXCEPT ![new_back_node].next_ = Null]
                   ELSE L.node
         IN  [list |-> [length_ |-> L.length_ - 1,
                        head_   |-> IF new_back_node # Null THEN L.head_
                                    ELSE new_back_node,
                        tail_   |-> new_back_node,
                        node    |-> DeleteNode(n1, L.tail_)],
              ret  |-> L.node[L.tail_].value_]

RECURSIVE AtForward(_, _, _, _)
\* while (count != index) { if (!search_ptr) return nullptr; search_ptr = search_ptr->next_; count++; }
AtForward(L, search_ptr, count, index) ==
    IF count = index THEN search_ptr
    ELSE IF search_ptr = Null THEN Null
    ELSE AtForward(L, L.node[search_ptr].next_, count + 1, index)

RECURSIVE AtBackward(_, _, _, _)
\* while (count != index) { if (!search_ptr) return nullptr; search_ptr = search_ptr->prev_; count--; }
AtBackward(L, search_ptr, count, index) ==
    IF count = index THEN search_ptr
    ELSE IF search_ptr = Null THEN Null
    ELSE AtBackward(L, L.node[search_ptr].prev_, count - 1, index)

\* at(index): the node pointer, or the std::out_of_range thrown.
List_at(L, index) ==
    IF index > LengthMinus1(L)
    THEN [raised |-> "out_of_range", ptr |-> Null]
    ELSE IF index < L.length_ \div 2
    THEN [raised |-> "", ptr |-> AtForward(L, L.head_, 0, index)]
    ELSE [raised |-> "", ptr |-> AtBackward(L, L.tail_, LengthMinus1(L), index)]

\* erase(index) that removes the first node whatever the index.
List_erase_First(L, index, T0) ==
    [list |-> List_pop_front(L, T0).list, raised |-> ""]

\* erase(index) that ignores the index and removes the last node.
List_erase_Last(L, index, T0) ==
    [list |-> List_pop_back(L, T0).list, raised |-> ""]

List_erase(L, index, T0) ==
    LET a == List_at(L, index)
        erasing_node == a.ptr
    IN  IF a.raised # "" THEN [list |-> L, raised |-> a.raised]
        ELSE IF erasing_node = Null THEN [list |-> L, raised |-> ""]
        ELSE IF L.node[erasing_node].prev_ = Null
        THEN [list |-> List_pop_front(L, T0).list, raised |-> ""]
        ELSE IF L.node[erasing_node].next_ = Null
        THEN [list |-> List_pop_back(L, T0).list, raised |-> ""]
        ELSE LET left_node  == L.node[erasing_node].prev_
                 right_node == L.node[erasing_node].next_
                 n1 == [L.node EXCEPT ![left_node].next_ = right_node,
                                      ![right_node].prev_ = left_node]
             IN  [list |-> [L EXCEPT !.length_ = L.length_ - 1,
                                     !.node = DeleteNode(n1, erasing_node)],
                  raised |-> ""]

\* insert(index, value) that links the new node after the located one.
List_insert_After(L, index, value) ==
    LET a == List_at(L, index)
        left_node == a.ptr
    IN  IF a.raised # "" THEN [list |-> L, raised |-> a.raised]
        ELSE IF left_node = Null
        THEN [list |-> List_push_back(L, value), raised |-> ""]
        ELSE IF L.node[left_node].next_ = Null
        THEN [list |-> List_push_back(L, value), raised |-> ""]
        ELSE LET right_node == L.node[left_node].next_
                 new_node == NewNode(L)
                 n1 == (new_node :> [Node(value) EXCEPT !.prev_ = left_node,
                                                        !.next_ = right_node])
                           @@ L.node
                 n2 == [n1 EXCEPT ![left_node].next_ = new_node,
                                  ![right_node].prev_ = new_node]
             IN  [list |-> [L EXCEPT !.length_ = L.length_ + 1, !.node = n2],
                  raised |-> ""]

\* insert(index, value): the list afterwards, or the exception at() threw.
List_insert(L, index, value) ==
    LET a == List_at(L, index)
        right_node == a.ptr
    IN  IF a.raised # "" THEN [list |-> L, raised |-> a.raised]
        ELSE IF right_node = Null
        THEN [list |-> List_push_back(L, value), raised |-> ""]
        ELSE IF L.node[right_node].prev_ = Null
        THEN [list |-> List_push_front(L, value), raised |-> ""]
        ELSE LET left_node == L.node[right_node].prev_
                 new_node == NewNode(L)
                 n1 == (new_node :> [Node(value) EXCEPT !.prev_ = left_node,
                                                        !.next_ = right_node])
                           @@ L.node
                 n2 == [n1 EXCEPT ![left_node].next_ = new_node,
                                  ![right_node].prev_ = new_node]
             IN  [list |-> [L EXCEPT !.length_ = L.length_ + 1, !.node = n2],
                  raised |-> ""]

RECURSIVE IterFrom(_, _)
\* The node pointers an Iterator visits from p by ++ until it is end().
IterFrom(L, p) == IF p = Null THEN <<>> ELSE <<p>> \o IterFrom(L, L.node[p].next_)

\* for (auto it : list): the nodes from begin() to end().
Iterate(L) == IterFrom(L, L.head_)

\* The values dereferenced along the way.
Values(L) == LET ps == Iterate(L) IN [i \in 1..Len(ps) |-> L.node[ps[i]].value_]

\* List(std::initializer_list<T> values): push_back of every value.
RECURSIVE ListOf(_)
ListOf(values) ==
    IF values = <<>> THEN EmptyList
    ELSE List_push_back(ListOf(SubSeq(values, 1, Len(values) - 1)),
                        values[Len(values)])

\* operator[](index): at(index)->value_.  at() may throw; a null pointer it
\* returns is dereferenced, which is undefined ("null dereference").
List_subscript(L, index) ==
    LET a == List_at(L, index)
    IN  IF a.raised # "" THEN [raised |-> a.raised, ret |-> 0]
        ELSE IF a.ptr = Null THEN [raised |-> "null dereference", ret |-> 0]
        ELSE [raised |-> "", ret |-> L.node[a.ptr].value_]

\* ++ and -- of a size_t.
Inc(n) == IF n = SIZE_MAX THEN 0 ELSE n + 1
Dec(n) == IF n = 0 THEN SIZE_MAX ELSE n - 1

(***************************************************************************)
(* sort and partition.  comp is "nullptr" or the name of a comparator; the  *)
(* values sorted are integers.                                              *)
(***************************************************************************)
\* The comparators a client passes: one that returns -1, 0 or 1, and one
\* that returns the difference of its arguments (an int8_t of either sign).
Comparators == {"sign", "difference"}

\* comp(&a, &b)
Comp(comp, a, b) ==
    IF comp = "sign" THEN (IF a < b THEN -1 ELSE IF a > b THEN 1 ELSE 0)
    ELSE a - b

\* The left cursor test with the comparator result compared with 1.
MovesLeft_Greater(comp, i_val, pivot) ==
    IF comp # "nullptr" THEN Comp(comp, i_val, pivot) = 1 ELSE i_val < pivot

\* (comp != nullptr) ? comp(&i_val, &pivot) == -1 : i_val < pivot
MovesLeft(comp, i_val, pivot) ==
    IF comp # "nullptr" THEN Comp(comp, i_val, pivot) = -1 ELSE i_val < pivot

\* The right cursor test of the default order with the comparison reversed.
MovesRight_Less(comp, j_val, pivot) ==
    IF comp # "nullptr" THEN Comp(comp, j_val, pivot) = 1 ELSE j_val < pivot

\* (comp != nullptr) ? comp(&j_val, &pivot) == 1 : j_val > pivot
MovesRight(comp, j_val, pivot) ==
    IF comp # "nullptr" THEN Comp(comp, j_val, pivot) = 1 ELSE j_val > pivot

RECURSIVE AdvanceLeft(_, _, _, _)
\* while (... i_val < pivot) i_val = this->at(i += 1)->value_;
\* the index the loop stops at, or what at() or the read of value_ raised.
AdvanceLeft(L, comp, pivot, i) ==
    LET r == List_subscript(L, i)
    IN  IF r.raised # "" THEN [raised |-> r.raised, at |-> i]
        ELSE IF MovesLeft(comp, r.ret, pivot) THEN AdvanceLeft(L, comp, pivot, Inc(i))
        ELSE [raised |-> "", at |-> i]

RECURSIVE RetreatRight(_, _, _, _)
\* while (... j_val > pivot) j_val = this->at(j -= 1)->value_;
RetreatRight(L, comp, pivot, j) ==
    LET r == List_subscript(L, j)
    IN  IF r.raised # "" THEN [raised |-> r.raised, at |-> j]
        ELSE IF MovesRight(comp, r.ret, pivot) THEN RetreatRight(L, comp, pivot, Dec(j))
        ELSE [raised |-> "", at |-> j]

\* A swap that only copies the right value to the left node.
SwapValues_Copy(L, i, j) ==
    LET pi == List_at(L, i).ptr
        pj == List_at(L, j).ptr
    IN  [L EXCEPT !.node = [@ EXCEPT ![pi].value_ = L.node[pj].value_]]

\* std::swap(this->at(i)->value_, this->at(j)->value_)
SwapValues(L, i, j) ==
    LET pi == List_at(L, i).ptr
        pj == List_at(L, j).ptr
    IN  [L EXCEPT !.node = [@ EXCEPT ![pi].value_ = L.node[pj].value_,
                                     ![pj].value_ = L.node[pi].value_]]

RECURSIVE PartitionLoop(_, _, _, _, _)
\* The while (true) loop of partition from the cursors i and j.
PartitionLoop(L, comp, pivot, i, j) ==
    LET i_val == List_subscript(L, i)
        j_val == List_subscript(L, j)
        left  == AdvanceLeft(L, comp, pivot, i)
        right == RetreatRight(L, comp, pivot, j)
    IN  IF i_val.raised # "" THEN [list |-> L, raised |-> i_val.raised, ret |-> 0]
        ELSE IF j_val.raised # "" THEN [list |-> L, raised |-> j_val.raised, ret |-> 0]
        ELSE IF left.raised # "" THEN [list |-> L, raised |-> left.raised, ret |-> 0]
        ELSE IF right.raised # "" THEN [list |-> L, raised |-> right.raised, ret |-> 0]
        ELSE IF left.at >= right.at THEN [list |-> L, raised |-> "", ret |-> right.at]
        ELSE PartitionLoop(SwapValues(L, left.at, right.at), comp, pivot,
                           Inc(left.at), Dec(right.at))

\* partition(low, high, comp) when distrib(gen) draws the index drawn.
List_partition(L, low, high, comp, drawn) ==
    LET p == List_subscript(L, drawn)
    IN  IF p.raised # "" THEN [list |-> L, raised |-> p.raised, ret |-> 0]
        ELSE PartitionLoop(L, comp, p.ret, low, high)

\* high_ that is the last index of the list whatever high is.
SortHigh_Last(L, high) == LengthMinus1(L)

\* size_t high_{ (high > length_ - 1) ? length_ - 1 : high }
SortHigh(L, high) == IF high > LengthMinus1(L) THEN LengthMinus1(L) ELSE high

(***************************************************************************)
(* The keys and values the clients of the model use.                        *)
(***************************************************************************)
\* "k1", "k2", ...: 'k' and the byte '0' + i.
FillerKey(i) == <<107, 48 + i>>
Fillers == {FillerKey(i) : i \in 1..NumFillers}
\* "f" and "av" share a bucket at every table size; "k7" joins them at 64.
KeyF == <<102>>
KeyAv == <<97, 118>>
ActiveKeys == {KeyF, KeyAv}
Keys == ActiveKeys \cup Fillers
Vals == 1..MaxVal
FillerValue(i) == 1 + (i % MaxVal)

(***************************************************************************)
(* OrderedHashTable<HashType> (src/orderhashtable.hpp), HashType = int.     *)
(* A table is the record of its members.                                    *)
(***************************************************************************)
MIN_TABLE_SIZE == 64
GROWTH_RATE == 2
\* MAX_UTIL_PERCENT{ 0.5 } as a fraction.
MAX_UTIL_PERCENT == [num |-> 1, den |-> 2]
\* HashType{} for int.
DefaultValue == 0
\* std::string{}
EmptyString == <<>>

\* Record(key, value): key_(key), value_(value).
Record(key, value) == [key_ |-> key, value_ |-> value]

\* The table sizes a run can reach: a constructed size, grown at most twice.
TableSizes ==
    {c * g : c \in {MIN_TABLE_SIZE, IF MaxCap > MIN_TABLE_SIZE THEN MaxCap ELSE MIN_TABLE_SIZE},
             g \in {1, GROWTH_RATE, GROWTH_RATE * GROWTH_RATE}}

\* hash_function evaluated once for the keys and sizes of the model (@@ makes
\* the model checker tabulate the function instead of recomputing every value).
HashOf ==
    [a \in (Keys \cup {EmptyString}) \X TableSizes |-> HashReal(key_int(a[1]), a[2])]
        @@ <<>>

\* hash_function(key, arr_size) of table t.  The result is the value before
\* the cast to uint64_t.
hash_function(t, key, arr_size) ==
    LET size_arr_ == IF arr_size = 0 THEN t.size_ ELSE arr_size
    IN  HashOf[<<key, size_arr_>>]

\* The loop "for (auto it : *table_cell) if (it->key_ == key)": the first
\* node of the bucket list whose Record has the key, and its index in the
\* list (ptr = nullptr when the loop ends without a match).
FindRecord(table_cell, key) ==
    LET ps   == Iterate(table_cell)
        hits == {i \in 1..Len(ps) : table_cell.node[ps[i]].value_.key_ = key}
    IN  IF hits = {} THEN [ptr |-> Null, list_ind |-> Len(ps)]
        ELSE LET i == CHOOSE h \in hits : \A g \in hits : h <= g
             IN  [ptr |-> ps[i], list_ind |-> i - 1]

\* The loop "for (auto it : *(this->key_list_)) if (it == key)".
FindKey(keys, key) ==
    LET ps   == Iterate(keys)
        hits == {i \in 1..Len(ps) : keys.node[ps[i]].value_ = key}
    IN  IF hits = {} THEN [ptr |-> Null, list_ind |-> Len(ps)]
        ELSE LET i == CHOOSE h \in hits : \A g \in hits : h <= g
             IN  [ptr |-> ps[i], list_ind |-> i - 1]

\* A constructor that ignores the size asked for.
OrderedHashTable_Minimum(size) ==
    [size_         |-> MIN_TABLE_SIZE,
     record_count_ |-> 0,
     record_arr_   |-> [item \in 0..(MIN_TABLE_SIZE - 1) |-> EmptyList],
     key_list_     |-> EmptyList]

\* OrderedHashTable(size)
OrderedHashTable(size) ==
    LET n == IF MIN_TABLE_SIZE > size THEN MIN_TABLE_SIZE ELSE size
    IN  [size_         |-> n,
         record_count_ |-> 0,
         record_arr_   |-> [item \in 0..(n - 1) |-> EmptyList],
         key_list_     |-> EmptyList]

Table_keys(t) == t.key_list_

Table_length(t) == t.record_count_

\* get that answers with the first Record of the bucket when the scan ends
\* without a match.
Table_get_Head(t, key) ==
    LET index      == hash_function(t, key, 0)
        table_cell == t.record_arr_[index]
        hit        == FindRecord(table_cell, key)
    IN  IF hit.ptr # Null THEN table_cell.node[hit.ptr].value_.value_
        ELSE IF table_cell.head_ # Null
        THEN table_cell.node[table_cell.head_].value_.value_
        ELSE DefaultValue

Table_get(t, key) ==
    LET index      == hash_function(t, key, 0)
        table_cell == t.record_arr_[index]
        hit        == FindRecord(table_cell, key)
    IN  IF hit.ptr # Null THEN table_cell.node[hit.ptr].value_.value_
        ELSE DefaultValue

\* The bytes of "Key '" and of "' not found. Use 'get' method, if you're not
\* sure that item exists.", the text around {} in the format string.
KeyNotFoundPrefix ==
    <<75, 101, 121, 32, 39>>
KeyNotFoundSuffix ==
    <<39, 32, 110, 111, 116, 32, 102, 111, 117, 110, 100, 46, 32, 85, 115,
      101, 32, 39, 103, 101, 116, 39, 32, 109, 101, 116, 104, 111, 100, 44,
      32, 105, 102, 32, 121, 111, 117, 39, 114, 101, 32, 110, 111, 116, 32,
      115, 117, 114, 101, 32, 116, 104, 97, 116, 32, 105, 116, 101, 109,
      32, 101, 120, 105, 115, 116, 115, 46>>

\* std::format("Key '{}' not found. Use 'get' method, if you're not sure
\* that item exists.", key): the bytes of the message.
KeyNotFoundMessage(key) == KeyNotFoundPrefix \o key \o KeyNotFoundSuffix

\* operator[] that answers like get when the scan ends without a match.
Table_subscript_Silent(t, key) ==
    LET index      == hash_function(t, key, 0)
        table_cell == t.record_arr_[index]
        hit        == FindRecord(table_cell, key)
    IN  [raised |-> "", message |-> <<>>,
         ret |-> IF hit.ptr # Null THEN table_cell.node[hit.ptr].value_.value_
                 ELSE DefaultValue]

\* operator[]: the value referred to, or the KeyException thrown.
Table_subscript(t, key) ==
    LET index      == hash_function(t, key, 0)
        table_cell == t.record_arr_[index]
        hit        == FindRecord(table_cell, key)
    IN  IF hit.ptr # Null
        THEN [raised |-> "", message |-> <<>>,
              ret |-> table_cell.node[hit.ptr].value_.value_]
        ELSE [raised |-> "KeyException", message |-> KeyNotFoundMessage(key),
              ret |-> DefaultValue]

RECURSIVE ExpandFill(_, _, _, _)
\* The rehashing loop of expand() from the i-th key of the key list on.
ExpandFill(t, temp, keys, i) ==
    IF i > Len(keys) THEN temp
    ELSE LET it    == keys[i]
             index == hash_function(t, it, t.size_ * GROWTH_RATE)
             value == Table_get(t, it)
         IN  ExpandFill(t,
                        [temp EXCEPT ![index] = List_push_back(@, Record(it, value))],
                        keys, i + 1)

\* expand() that moves the old buckets to the new array without rehashing.
Table_expand_NoRehash(t) ==
    LET n == t.size_ * GROWTH_RATE
    IN  [t EXCEPT !.record_arr_ = [i \in 0..(n - 1) |->
                                      IF i < t.size_ THEN t.record_arr_[i]
                                      ELSE EmptyList],
                  !.size_ = n]

\* expand() that fills the new array and forgets size_ *= GROWTH_RATE.
Table_expand_KeepsSize(t) ==
    LET n    == t.size_ * GROWTH_RATE
        temp == [i \in 0..(n - 1) |-> EmptyList]
    IN  [t EXCEPT !.record_arr_ = ExpandFill(t, temp, Values(t.key_list_), 1)]

Table_expand(t) ==
    LET n    == t.size_ * GROWTH_RATE
        temp == [i \in 0..(n - 1) |-> EmptyList]
    IN  [t EXCEPT !.record_arr_ = ExpandFill(t, temp, Values(t.key_list_), 1),
                  !.size_ = n]

\* The load test with > in place of >=.
LoadReached_Strict(t) ==
    t.record_count_ * MAX_UTIL_PERCENT.den > MAX_UTIL_PERCENT.num * t.size_

\* record_count_ / static_cast<double>(size_) >= MAX_UTIL_PERCENT; the
\* quotient of two integers of this size is compared exactly.
LoadReached(t) ==
    t.record_count_ * MAX_UTIL_PERCENT.den >= MAX_UTIL_PERCENT.num * t.size_

\* insert whose scan returns at the match without the assignment.
Table_insert_KeepsValue(t, key, value) ==
    LET index      == hash_function(t, key, 0)
        table_cell == t.record_arr_[index]
        hit        == FindRecord(table_cell, key)
    IN  IF hit.ptr # Null
        THEN t
        ELSE LET t1 == [t EXCEPT !.key_list_ = List_push_back(@, key),
                                 !.record_count_ = @ + 1,
                                 !.record_arr_[index] =
                                     List_push_back(@, Record(key, value))]
             IN  IF LoadReached(t1) THEN Table_expand(t1) ELSE t1

\* insert without the scan for the key.
Table_insert_NoScan(t, key, value) ==
    LET index == hash_function(t, key, 0)
        t1    == [t EXCEPT !.key_list_ = List_push_back(@, key),
                           !.record_count_ = @ + 1,
                           !.record_arr_[index] =
                               List_push_back(@, Record(key, value))]
    IN  IF LoadReached(t1) THEN Table_expand(t1) ELSE t1

\* insert that puts the new Record at the front of its bucket.
Table_insert_BucketFront(t, key, value) ==
    LET index      == hash_function(t, key, 0)
        table_cell == t.record_arr_[index]
        hit        == FindRecord(table_cell, key)
    IN  IF hit.ptr # Null
        THEN [t EXCEPT !.record_arr_[index].node[hit.ptr].value_.value_ = value]
        ELSE LET t1 == [t EXCEPT !.key_list_ = List_push_back(@, key),
                                 !.record_count_ = @ + 1,
                                 !.record_arr_[index] =
                                     List_push_front(@, Record(key, value))]
             IN  IF LoadReached(t1) THEN Table_expand(t1) ELSE t1

Table_insert(t, key, value) ==
    LET index      == hash_function(t, key, 0)
        table_cell == t.record_arr_[index]
        hit        == FindRecord(table_cell, key)
    IN  IF hit.ptr # Null
        THEN [t EXCEPT !.record_arr_[index].node[hit.ptr].value_.value_ = value]
        ELSE LET t1 == [t EXCEPT !.key_list_ = List_push_back(@, key),
                                 !.record_count_ = @ + 1,
                                 !.record_arr_[index] =
                                     List_push_back(@, Record(key, value))]
             IN  IF LoadReached(t1) THEN Table_expand(t1) ELSE t1

\* erase that leaves the key list alone.
Table_erase_BucketOnly(t, key) ==
    LET index      == hash_function(t, key, 0)
        table_cell == t.record_arr_[index]
        hit        == FindRecord(table_cell, key)
    IN  [t |-> IF hit.ptr # Null
               THEN [t EXCEPT !.record_arr_[index] =
                                  List_erase(@, hit.list_ind, Null).list,
                              !.record_count_ = @ - 1]
               ELSE t,
         raised |-> ""]

\* erase that decrements record_count_ after the bucket scan, match or not.
Table_erase_Decrements(t, key) ==
    LET index      == hash_function(t, key, 0)
        table_cell == t.record_arr_[index]
        hit        == FindRecord(table_cell, key)
        t1 == IF hit.ptr # Null
              THEN [t EXCEPT !.record_arr_[index] =
                                 List_erase(@, hit.list_ind, Null).list,
                             !.record_count_ = @ - 1]
              ELSE [t EXCEPT !.record_count_ = @ - 1]
        khit == FindKey(t1.key_list_, key)
    IN  [t |-> IF khit.ptr # Null
               THEN [t1 EXCEPT !.key_list_ =
                                   List_erase(@, khit.list_ind, EmptyString).list]
               ELSE t1,
         raised |-> ""]

\* erase(key): the table afterwards and the exception that left it, if the
\* at() of a List::erase threw.
Table_erase(t, key) ==
    LET index      == hash_function(t, key, 0)
        table_cell == t.record_arr_[index]
        hit        == FindRecord(table_cell, key)
        khit       == FindKey(t.key_list_, key)
        raised1    == IF hit.ptr # Null
                      THEN List_at(table_cell, hit.list_ind).raised ELSE ""
        raised2    == IF khit.ptr # Null
                      THEN List_at(t.key_list_, khit.list_ind).raised ELSE ""
    IN  IF raised1 # "" THEN [t |-> t, raised |-> raised1]
        ELSE [t |-> [t EXCEPT
                       !.record_arr_[index] =
                           IF hit.ptr # Null
                           THEN List_erase(@, hit.list_ind, Null).list ELSE @,
                       !.record_count_ = IF hit.ptr # Null THEN @ - 1 ELSE @,
                       !.key_list_ =
                           IF khit.ptr # Null
                           THEN List_erase(@, khit.list_ind, EmptyString).list
                           ELSE @],
              raised |-> raised2]

\* pop() that takes the first Record of the bucket.
Table_pop_Front(t) ==
    LET kp            == List_pop_back(t.key_list_, EmptyString)
        key           == kp.ret
        index         == hash_function(t, key, 0)
        rp            == List_pop_front(t.record_arr_[index], Null)
        popped_record == rp.ret
    IN  [t   |-> [t EXCEPT !.key_list_ = kp.list,
                           !.record_arr_[index] = rp.list,
                           !.record_count_ = @ - 1],
         key |-> key,
         ret |-> popped_record.value_]

\* pop() without the decrement of record_count_.
Table_pop_KeepsCount(t) ==
    LET kp            == List_pop_back(t.key_list_, EmptyString)
        key           == kp.ret
        index         == hash_function(t, key, 0)
        rp            == List_pop_back(t.record_arr_[index], Null)
        popped_record == rp.ret
    IN  [t   |-> [t EXCEPT !.key_list_ = kp.list,
                           !.record_arr_[index] = rp.list],
         key |-> key,
         ret |-> popped_record.value_]

\* pop() of a table whose key list is not empty.
Table_pop(t) ==
    LET kp            == List_pop_back(t.key_list_, EmptyString)
        key           == kp.ret
        index         == hash_function(t, key, 0)
        rp            == List_pop_back(t.record_arr_[index], Null)
        popped_record == rp.ret
    IN  [t   |-> [t EXCEPT !.key_list_ = kp.list,
                           !.record_arr_[index] = rp.list,
                           !.record_count_ = @ - 1],
         key |-> key,
         ret |-> popped_record.value_]

(***************************************************************************)
(* The state: one table, and the last call made on it with its outcome.     *)
(***************************************************************************)
VARIABLES size_, record_count_, record_arr_, key_list_, call

\* A List<int> of its own, the sort() call running on it, and the
\* double-ended queue its pushes and pops are compared with.
VARIABLES list, sorting, deque

\* What the table has allocated with new and not yet deleted (kept by the
\* client that watches the heap), and a second table, copy-constructed from
\* the first (kept by the client that copies).
VARIABLES heap, copy

vars == <<size_, record_count_, record_arr_, key_list_, call, list, sorting, deque,
          heap, copy>>

\* The heap is not watched.
NoHeap == [records |-> 0, lists |-> 0]

\* No copy has been made.
NoCopy == [made |-> FALSE]

\* No sort() is running.
NotSorting == [frames |-> <<>>, comp |-> "nullptr", before |-> <<>>,
               split |-> <<>>, range |-> <<>>]

\* The steps of the table leave the list alone; the clients that watch the
\* heap or copy the table have steps of their own.
ListIdle == UNCHANGED <<list, sorting, deque, heap, copy>>

\* *this
This == [size_ |-> size_, record_count_ |-> record_count_,
         record_arr_ |-> record_arr_, key_list_ |-> key_list_]

Becomes(t) ==
    /\ size_' = t.size_
    /\ record_count_' = t.record_count_
    /\ record_arr_' = t.record_arr_
    /\ key_list_' = t.key_list_

\* The last call: its name and arguments, what it returned or threw, and
\* the branch it took (path).
Call(op, key, value, ret, raised, message, path) ==
    [op |-> op, key |-> key, value |-> value, ret |-> ret,
     raised |-> raised, message |-> message, path |-> path]

\* The requested capacities: none (0) and one above the minimum.
InitCaps == {0, MaxCap}

Init ==
    \E cap \in InitCaps :
        /\ size_ = OrderedHashTable(cap).size_
        /\ record_count_ = OrderedHashTable(cap).record_count_
        /\ record_arr_ = OrderedHashTable(cap).record_arr_
        /\ key_list_ = OrderedHashTable(cap).key_list_
        /\ call = Call("OrderedHashTable", EmptyString, cap, DefaultValue, "", <<>>, "")
        /\ list = EmptyList
        /\ sorting = NotSorting
        /\ deque = <<>>
        /\ heap = NoHeap
        /\ copy = NoCopy

\* The keys in insertion order, as keys() lets a client iterate them.
KeySeq(t) == Values(t.key_list_)

\* The branch insert(key, value) takes on t: the early return of the scan,
\* the plain append, or the append followed by expand().
InsertPath(t, key) ==
    LET index == hash_function(t, key, 0)
        hit   == FindRecord(t.record_arr_[index], key)
    IN  IF hit.ptr # Null THEN "overwrite"
        ELSE IF LoadReached([t EXCEPT !.record_count_ = @ + 1]) THEN "expand"
        ELSE "append"

\* The branch erase(key) takes on t: whether the bucket scan meets the key.
ErasePath(t, key) ==
    LET index == hash_function(t, key, 0)
    IN  IF FindRecord(t.record_arr_[index], key).ptr # Null THEN "found" ELSE "absent"

\* The client loads the filler keys in order into a table that holds no
\* other key.  It starts to work with the active keys on a table that is
\* nearly empty or nearly loaded.
NextFiller(t) ==
    LET m == Len(KeySeq(t))
    IN  IF m < NumFillers /\ KeySeq(t) = [i \in 1..m |-> FillerKey(i)]
        THEN {m + 1} ELSE {}

InsertFiller ==
    \E i \in NextFiller(This) :
        /\ Becomes(Table_insert(This, FillerKey(i), FillerValue(i)))
        /\ call' = Call("insert", FillerKey(i), FillerValue(i), DefaultValue, "", <<>>,
                        InsertPath(This, FillerKey(i)))
        /\ ListIdle

NearEnds == 2

ActiveStart(t) ==
    \/ \E key \in ActiveKeys : FindKey(t.key_list_, key).ptr # Null
    \/ t.key_list_.length_ < NearEnds
    \/ t.key_list_.length_ > NumFillers - NearEnds - 1

Insert ==
    \E key \in ActiveKeys, value \in Vals :
        /\ ActiveStart(This)
        /\ Becomes(Table_insert(This, key, value))
        /\ call' = Call("insert", key, value, DefaultValue, "", <<>>,
                        InsertPath(This, key))
        /\ ListIdle

\* The keys a client erases and looks up: the active keys and "k2".
ProbeKeys == ActiveKeys \cup {FillerKey(2)}

Erase ==
    \E key \in ProbeKeys :
        /\ Becomes(Table_erase(This, key).t)
        /\ call' = Call("erase", key, DefaultValue, DefaultValue,
                        Table_erase(This, key).raised, <<>>, ErasePath(This, key))
        /\ ListIdle

\* pop(), called on a table that holds a key; call.key is the local
\* variable key of pop().
Pop ==
    /\ key_list_.length_ > 0
    /\ Becomes(Table_pop(This).t)
    /\ call' = Call("pop", Table_pop(This).key, DefaultValue, Table_pop(This).ret,
                    "", <<>>, "")
    /\ ListIdle

Get ==
    \E key \in ProbeKeys :
        /\ UNCHANGED <<size_, record_count_, record_arr_, key_list_>>
        /\ call' = Call("get", key, DefaultValue, Table_get(This, key), "", <<>>, "")
        /\ ListIdle

Subscript ==
    \E key \in ProbeKeys :
        LET r == Table_subscript(This, key)
        IN  /\ UNCHANGED <<size_, record_count_, record_arr_, key_list_>>
            /\ call' = Call("operator[]", key, DefaultValue, r.ret, r.raised,
                            r.message, "")
            /\ ListIdle

Next == InsertFiller \/ Insert \/ Erase \/ Pop \/ Get \/ Subscript

Spec == Init /\ [][Next]_vars

(***************************************************************************)
(* pop() of a table that holds no key.                                      *)
(***************************************************************************)
\* The largest uint32_t; record_count_-- of 0 gives it.  The largest integer
\* of the model checker stands for 2^32 - 1.
UINT32_MAX == 2147483647

\* record_count_-- of the uint32_t member.
Dec32(n) == IF n = 0 THEN UINT32_MAX ELSE n - 1

\* What the read of value_ through a dangling or null Record pointer can
\* give when it does not fault: a value once stored, or the default.
StaleValues == Vals \cup {DefaultValue}

\* What pop() does to a table whose key list is empty.  key_list_->pop_back()
\* returns std::string{} and the bucket of that key is empty, so its
\* pop_back() returns a null Record pointer; popped_record->value_ reads
\* through it, which is undefined.  The read either ends the process
\* (raised = "SIGSEGV", nothing after it runs) or yields some value, and
\* then record_count_-- runs on 0.
Table_pop_empty(t) ==
    LET kp            == List_pop_back(t.key_list_, EmptyString)
        key           == kp.ret
        index         == hash_function(t, key, 0)
        rp            == List_pop_back(t.record_arr_[index], Null)
        popped_record == rp.ret
        t1            == [t EXCEPT !.key_list_ = kp.list,
                                   !.record_arr_[index] = rp.list]
    IN  IF popped_record # Null
        THEN {[t |-> [t1 EXCEPT !.record_count_ = Dec32(@)], key |-> key,
               ret |-> popped_record.value_, raised |-> ""]}
        ELSE {[t |-> t1, key |-> key, ret |-> DefaultValue, raised |-> "SIGSEGV"]}
             \cup {[t |-> [t1 EXCEPT !.record_count_ = Dec32(@)], key |-> key,
                    ret |-> v, raised |-> ""] : v \in StaleValues}

\* The run is followed up to the first pop() of an empty table.
PoppedEmpty == call.op = "pop" /\ call.path = "empty"

PopEmpty ==
    /\ ~PoppedEmpty
    /\ key_list_.length_ = 0
    /\ \E r \in Table_pop_empty(This) :
           /\ Becomes(r.t)
           /\ call' = Call("pop", r.key, DefaultValue, r.ret, r.raised, <<>>, "empty")
           /\ ListIdle

NextPopEmpty == (~PoppedEmpty /\ Next) \/ PopEmpty

SpecPopEmpty == Init /\ [][NextPopEmpty]_vars

(***************************************************************************)
(* sort() on a List<int>.  One step is one call of sort(low, high, comp):   *)
(* the test low < high_, the partition with the index its random source     *)
(* draws, and the two calls it makes, which wait as frames.                 *)
(***************************************************************************)
MaxLen == 4
MaxElem == 3
Elems == 1..MaxElem

\* The lists a client builds: every content of at most MaxLen elements.
Contents == UNION {[1..n -> Elems] : n \in 0..MaxLen}

\* The steps of the list leave the table alone.
TableIdle == UNCHANGED <<size_, record_count_, record_arr_, key_list_, heap, copy>>

InitList(values) ==
    /\ size_ = OrderedHashTable(0).size_
    /\ record_count_ = OrderedHashTable(0).record_count_
    /\ record_arr_ = OrderedHashTable(0).record_arr_
    /\ key_list_ = OrderedHashTable(0).key_list_
    /\ list = ListOf(values)
    /\ call = Call("List", EmptyString, Len(values), 0, "", <<>>, "")
    /\ sorting = NotSorting
    /\ deque = values
    /\ heap = NoHeap
    /\ copy = NoCopy

InitSort == \E values \in Contents : InitList(values)

\* The indices std::uniform_int_distribution<size_t>(low, high) can draw.
\* A range wider than any list of the model is the range 0..SIZE_MAX of an
\* empty list, where at() takes the same path for every index: its two ends
\* stand for all of them.
Draws(low, high) == IF high - low > MaxLen + 1 THEN {low, high} ELSE low..high

\* The calls sort(low, high, comp) among those made that do not return at
\* once (low < high).
Pending(calls) == LET Works(f) == f.low < f.high IN SelectSeq(calls, Works)

\* sort() with its default arguments: low = 0, high = -1 (SIZE_MAX), and
\* comp either nullptr or a comparator.
SortCallWith(comps) ==
    /\ sorting.frames = <<>>
    /\ call.raised = ""
    /\ \E comp \in comps :
           sorting' = [frames |-> <<[low |-> 0, high |-> SIZE_MAX]>>,
                       comp |-> comp, before |-> Values(list), split |-> <<>>,
                       range |-> <<0, SIZE_MAX>>]
    /\ call' = Call("sort", EmptyString, 0, 0, "", <<>>, "running")
    /\ UNCHANGED <<list, deque>>
    /\ TableIdle

\* The values of the parameter comp: nullptr, its default, or a comparator.
SortComparators == {"nullptr"} \cup Comparators

\* list.sort() or list.sort(0, -1, comp)
SortCall == SortCallWith(SortComparators)

\* What is left of a sort() when the calls in frames wait.
SortGoesOn(frames) ==
    Call("sort", EmptyString, 0, 0, "", <<>>,
         IF frames = <<>> THEN "returned" ELSE "running")

SortStep ==
    /\ sorting.frames # <<>>
    /\ LET f     == Head(sorting.frames)
           high_ == SortHigh(list, f.high)
           rest  == Tail(sorting.frames)
       IN  IF ~(f.low < high_)
           THEN /\ list' = list
                /\ sorting' = [sorting EXCEPT !.frames = rest, !.split = <<>>]
                /\ call' = SortGoesOn(rest)
           ELSE \E drawn \in Draws(f.low, high_) :
                    LET r == List_partition(list, f.low, high_, sorting.comp, drawn)
                        calls == Pending(<<[low |-> f.low, high |-> r.ret],
                                           [low |-> Inc(r.ret), high |-> high_]>>)
                                     \o rest
                    IN  /\ list' = r.list
                        /\ IF r.raised # ""
                           THEN /\ sorting' = [sorting EXCEPT !.frames = <<>>,
                                                               !.split = <<>>]
                                /\ call' = Call("sort", EmptyString, 0, 0, r.raised,
                                                <<>>, "raised")
                           ELSE /\ sorting' = [sorting EXCEPT
                                                  !.frames = calls,
                                                  !.split = <<f.low, high_, r.ret>>]
                                /\ call' = SortGoesOn(calls)
    /\ deque' = Values(list')
    /\ TableIdle

NextSort == SortCall \/ SortStep

SpecSort == InitSort /\ [][NextSort]_vars

(***************************************************************************)
(* sort(low, high) on a part of the list, in the default order.             *)
(***************************************************************************)

\* The bounds a client passes: indices of the list, one past its end, and
\* the default high = -1.
PartLows == 0..MaxLen
PartHighs == (0..MaxLen) \cup {SIZE_MAX}

\* list.sort(low, high) with low <= high
SortPart ==
    /\ sorting.frames = <<>>
    /\ call.raised = ""
    /\ \E low \in PartLows, high \in PartHighs :
           /\ low <= high
           /\ sorting' = [frames |-> <<[low |-> low, high |-> high]>>,
                          comp |-> "nullptr", before |-> Values(list),
                          split |-> <<>>, range |-> <<low, high>>]
    /\ call' = Call("sort", EmptyString, 0, 0, "", <<>>, "running")
    /\ UNCHANGED <<list, deque>>
    /\ TableIdle

NextPart == SortPart \/ SortStep

SpecPart == InitSort /\ [][NextPart]_vars

(***************************************************************************)
(* A client of List<int>: pushes and pops at both ends and indexed reads,   *)
(* next to a reference double-ended queue (deque) driven by the same calls. *)
(***************************************************************************)

\* The longest list the client builds.
MaxDeque == 3

\* The indices the client reads: those of the list, the ones past its end,
\* and the largest size_t.
Indices == (0..(MaxDeque + 1)) \cup {SIZE_MAX}

\* List<int> list;
InitDeque == InitList(<<>>)

\* The client goes on unless the last call ended the process.
Alive == call.raised # "null dereference"

\* list.push_back(data)
PushBack ==
    /\ Alive
    /\ list.length_ < MaxDeque
    /\ \E data \in Elems :
           /\ list' = List_push_back(list, data)
           /\ deque' = Append(deque, data)
           /\ call' = Call("push_back", EmptyString, data, 0, "", <<>>, "")
    /\ sorting' = NotSorting
    /\ TableIdle

\* list.push_front(data)
PushFront ==
    /\ Alive
    /\ list.length_ < MaxDeque
    /\ \E data \in Elems :
           /\ list' = List_push_front(list, data)
           /\ deque' = <<data>> \o deque
           /\ call' = Call("push_front", EmptyString, data, 0, "", <<>>, "")
    /\ sorting' = NotSorting
    /\ TableIdle

\* list.pop_back()
PopBack ==
    /\ Alive
    /\ LET r == List_pop_back(list, 0)
       IN  /\ list' = r.list
           /\ call' = Call("pop_back", EmptyString, 0, r.ret, "", <<>>,
                           IF List_empty(list) THEN "empty" ELSE "popped")
    /\ deque' = IF deque = <<>> THEN deque
                ELSE SubSeq(deque, 1, Len(deque) - 1)
    /\ sorting' = NotSorting
    /\ TableIdle

\* list.pop_front()
PopFront ==
    /\ Alive
    /\ LET r == List_pop_front(list, 0)
       IN  /\ list' = r.list
           /\ call' = Call("pop_front", EmptyString, 0, r.ret, "", <<>>,
                           IF List_empty(list) THEN "empty" ELSE "popped")
    /\ deque' = IF deque = <<>> THEN deque ELSE Tail(deque)
    /\ sorting' = NotSorting
    /\ TableIdle

\* list.at(index): the call returns a node pointer (ret, path "node"), the
\* null pointer (path "nullptr"), or throws.
At ==
    /\ Alive
    /\ \E index \in Indices :
           LET a == List_at(list, index)
           IN  call' = Call("at", EmptyString, index, a.ptr, a.raised, <<>>,
                            IF a.raised # "" THEN "raised"
                            ELSE IF a.ptr = Null THEN "nullptr" ELSE "node")
    /\ sorting' = NotSorting
    /\ UNCHANGED <<list, deque>>
    /\ TableIdle

\* list[index], the value read.
ListSubscript ==
    /\ Alive
    /\ \E index \in Indices :
           LET r == List_subscript(list, index)
           IN  call' = Call("operator[]", EmptyString, index, r.ret, r.raised,
                            <<>>, IF r.raised # "" THEN "raised" ELSE "value")
    /\ sorting' = NotSorting
    /\ UNCHANGED <<list, deque>>
    /\ TableIdle

NextList == PushBack \/ PushFront \/ PopBack \/ PopFront \/ At \/ ListSubscript

SpecList == InitDeque /\ [][NextList]_vars

(***************************************************************************)
(* The same client with every mutating operation of List<int>: erase,       *)
(* insert and sort next to the pushes and pops.  The reference deque is     *)
(* kept equal to what the list holds after each erase and insert.           *)
(***************************************************************************)

\* No sort() is under way.
NoSortRunning == sorting.frames = <<>>

\* list.erase(index)
ListErase ==
    /\ Alive
    /\ NoSortRunning
    /\ \E index \in Indices :
           LET r == List_erase(list, index, 0)
           IN  /\ list' = r.list
               /\ deque' = Values(r.list)
               /\ call' = Call("erase", EmptyString, index, 0, r.raised, <<>>,
                               IF r.raised # "" THEN "raised" ELSE "returned")
    /\ sorting' = NotSorting
    /\ TableIdle

\* list.insert(index, value)
ListInsert ==
    /\ Alive
    /\ NoSortRunning
    /\ list.length_ < MaxDeque
    /\ \E index \in Indices, value \in Elems :
           LET r == List_insert(list, index, value)
           IN  /\ list' = r.list
               /\ deque' = Values(r.list)
               /\ call' = Call("insert", EmptyString, index, value, r.raised,
                               <<>>,
                               IF r.raised # "" THEN "raised" ELSE "returned")
    /\ sorting' = NotSorting
    /\ TableIdle

\* list.sort()
SortDefault == SortCallWith({"nullptr"})

NextEdit ==
    \/ NoSortRunning /\ (PushBack \/ PushFront \/ PopBack \/ PopFront)
    \/ ListErase
    \/ ListInsert
    \/ SortDefault
    \/ SortStep

SpecEdit == InitDeque /\ [][NextEdit]_vars

(***************************************************************************)
(* A client that builds a List<int> and then walks it with an Iterator:     *)
(* from begin() by ++ or from rbegin() by --, until the cursor is end() or  *)
(* rend() (the null cursor).  The last call holds the cursor: ret is its    *)
(* current_node, value the number of moves made since begin() or rbegin(),  *)
(* path the direction.  No structural call is made while the cursor is on   *)
(* a node.                                                                  *)
(***************************************************************************)

\* Iterator::operator++: current_node->next_ unless current_node is null.
Iterator_increment(L, current_node) ==
    IF current_node # Null THEN L.node[current_node].next_ ELSE current_node

\* operator-- that follows next_.
Iterator_decrement_Next(L, current_node) ==
    IF current_node # Null THEN L.node[current_node].next_ ELSE current_node

\* Iterator::operator--: current_node->prev_ unless current_node is null.
Iterator_decrement(L, current_node) ==
    IF current_node # Null THEN L.node[current_node].prev_ ELSE current_node

IteratorCalls == {"begin", "rbegin", "++", "--"}

\* An Iterator of the client is on a node.
Walking == call.op \in IteratorCalls /\ call.ret # Null

\* auto it = list.begin();
Begin ==
    /\ Alive
    /\ ~Walking
    /\ call' = Call("begin", EmptyString, 0, list.head_, "", <<>>, "forward")
    /\ sorting' = NotSorting
    /\ UNCHANGED <<list, deque>>
    /\ TableIdle

\* auto it = list.rbegin();
RBegin ==
    /\ Alive
    /\ ~Walking
    /\ call' = Call("rbegin", EmptyString, 0, list.tail_, "", <<>>, "backward")
    /\ sorting' = NotSorting
    /\ UNCHANGED <<list, deque>>
    /\ TableIdle

\* ++it, while it != list.end() or on the null cursor.
Increment ==
    /\ call.op \in {"begin", "++"}
    /\ call' = Call("++", EmptyString,
                    IF call.ret # Null THEN call.value + 1 ELSE call.value,
                    Iterator_increment(list, call.ret), "", <<>>, "forward")
    /\ sorting' = NotSorting
    /\ UNCHANGED <<list, deque>>
    /\ TableIdle

\* --it, while it != list.rend() or on the null cursor.
Decrement ==
    /\ call.op \in {"rbegin", "--"}
    /\ call' = Call("--", EmptyString,
                    IF call.ret # Null THEN call.value + 1 ELSE call.value,
                    Iterator_decrement(list, call.ret), "", <<>>, "backward")
    /\ sorting' = NotSorting
    /\ UNCHANGED <<list, deque>>
    /\ TableIdle

NextIter ==
    \/ ~Walking /\ (PushBack \/ PushFront \/ PopBack \/ PopFront)
    \/ ~Walking /\ ListErase
    \/ ~Walking /\ ListInsert
    \/ Begin
    \/ RBegin
    \/ Increment
    \/ Decrement

SpecIter == InitDeque /\ [][NextIter]_vars

(***************************************************************************)
(* The table client with the heap watched: heap.records is the number of    *)
(* Records allocated with new and not deleted, heap.lists the number of     *)
(* bucket Lists allocated with new and not deleted.                         *)
(***************************************************************************)

\* The most Records the client lets go astray by erase.
MaxLeak == 2

\* OrderedHashTable(size): new List<Record<T>*> for each of the size_ buckets.
Heap_construct(t) == [records |-> 0, lists |-> t.size_]

\* expand() on the table t (as insert left it): a new List per bucket of
\* the new array, a new Record per key of the key list, and delete of the
\* old bucket Lists of the indices below size_ / GROWTH_RATE.  The List
\* destructor deletes its nodes, not the Records they point to.
Heap_expand(h, t) ==
    [records |-> h.records + t.key_list_.length_,
     lists   |-> h.lists + t.size_ * GROWTH_RATE - t.size_ \div GROWTH_RATE]

\* insert(key, value): new Record unless the key is there, then expand()
\* when the load is reached.
Heap_insert(h, t, key) ==
    IF InsertPath(t, key) = "overwrite" THEN h
    ELSE LET h1 == [h EXCEPT !.records = @ + 1]
             t1 == [t EXCEPT !.key_list_.length_ = @ + 1, !.record_count_ = @ + 1]
         IN  IF InsertPath(t, key) = "expand" THEN Heap_expand(h1, t1) ELSE h1

\* erase(key): the nodes are deleted by List::erase, no Record is.
Heap_erase(h, t, key) == h

\* pop(): delete popped_record.
Heap_pop(h, t) == [h EXCEPT !.records = @ - 1]

\* The Records that are allocated and in no bucket.
Astray == heap.records - record_count_

InitHeap ==
    \E cap \in InitCaps :
        /\ size_ = OrderedHashTable(cap).size_
        /\ record_count_ = OrderedHashTable(cap).record_count_
        /\ record_arr_ = OrderedHashTable(cap).record_arr_
        /\ key_list_ = OrderedHashTable(cap).key_list_
        /\ call = Call("OrderedHashTable", EmptyString, cap, DefaultValue, "", <<>>, "")
        /\ list = EmptyList
        /\ sorting = NotSorting
        /\ deque = <<>>
        /\ heap = Heap_construct(OrderedHashTable(cap))
        /\ copy = NoCopy

HeapInsertFiller ==
    \E i \in NextFiller(This) :
        /\ Becomes(Table_insert(This, FillerKey(i), FillerValue(i)))
        /\ call' = Call("insert", FillerKey(i), FillerValue(i), DefaultValue, "", <<>>,
                        InsertPath(This, FillerKey(i)))
        /\ heap' = Heap_insert(heap, This, FillerKey(i))
        /\ UNCHANGED <<list, sorting, deque, copy>>

HeapInsert ==
    \E key \in ActiveKeys, value \in Vals :
        /\ ActiveStart(This)
        /\ Becomes(Table_insert(This, key, value))
        /\ call' = Call("insert", key, value, DefaultValue, "", <<>>,
                        InsertPath(This, key))
        /\ heap' = Heap_insert(heap, This, key)
        /\ UNCHANGED <<list, sorting, deque, copy>>

HeapErase ==
    \E key \in ProbeKeys :
        /\ Astray < MaxLeak
        /\ Becomes(Table_erase(This, key).t)
        /\ call' = Call("erase", key, DefaultValue, DefaultValue,
                        Table_erase(This, key).raised, <<>>, ErasePath(This, key))
        /\ heap' = Heap_erase(heap, This, key)
        /\ UNCHANGED <<list, sorting, deque, copy>>

HeapPop ==
    /\ key_list_.length_ > 0
    /\ Becomes(Table_pop(This).t)
    /\ call' = Call("pop", Table_pop(This).key, DefaultValue, Table_pop(This).ret,
                    "", <<>>, "")
    /\ heap' = Heap_pop(heap, This)
    /\ UNCHANGED <<list, sorting, deque, copy>>

NextHeap == HeapInsertFiller \/ HeapInsert \/ HeapErase \/ HeapPop

SpecHeap == InitHeap /\ [][NextHeap]_vars

(***************************************************************************)
(* A client with two tables: the source, which is the table of the other   *)
(* clients, and a copy constructed from it.  record_arr_ and key_list_      *)
(* are pointers: copy.at names the arrays they point to, and a call that    *)
(* writes through a pointer changes the array for every table that points   *)
(* to it.                                                                   *)
(***************************************************************************)

RECURSIVE InsertFillers(_, _, _)
\* for (auto& value : values) this->insert(value.key_, value.value_);
\* for the filler keys i..m.
InsertFillers(t, i, m) ==
    IF t.size_ > 0 /\ i > m THEN t
    ELSE InsertFillers(Table_insert(t, FillerKey(i), FillerValue(i)), i + 1, m)

\* OrderedHashTable(std::initializer_list<Record<T>> values) with the first
\* m filler keys: the default constructor, then the inserts.
OrderedHashTable_values(m) == InsertFillers(OrderedHashTable(0), 1, m)

\* The tables a client copies: an empty one of the odd capacity, one that
\* the next new key expands and one that has expanded.
SourceTables ==
    {OrderedHashTable(MaxCap)}
        \cup {OrderedHashTable_values(m) : m \in {NumFillers - 1, NumFillers}}

\* The values the two clients store.
CopyVals == {1, MaxVal}

InitCopy ==
    \E t \in SourceTables :
        /\ size_ = t.size_
        /\ record_count_ = t.record_count_
        /\ record_arr_ = t.record_arr_
        /\ key_list_ = t.key_list_
        /\ call = Call("OrderedHashTable", EmptyString, t.record_count_, DefaultValue,
                       "", <<>>, "")
        /\ list = EmptyList
        /\ sorting = NotSorting
        /\ deque = <<>>
        /\ heap = NoHeap
        /\ copy = NoCopy

\* Where record_arr_ and key_list_ of the source point, and what the next
\* new of each kind returns.
SourceAt == [record_arr_ |-> 1, key_list_ |-> 1]
FreshAt == [record_arr_ |-> 2, key_list_ |-> 2]

RECURSIVE CopyFill(_, _, _, _)
\* for (auto it : *(copy_table.keys())) this->insert(it, copy_table[it]);
\* from the i-th key on.
\* (size_ of the table is read at every round, so that the table of one
\* round is computed before the next round begins.)
CopyFill(t, copy_table, keys, i) ==
    IF t.size_ > 0 /\ i > Len(keys) THEN t
    ELSE CopyFill(Table_insert(t, keys[i], Table_subscript(copy_table, keys[i]).ret),
                  copy_table, keys, i + 1)

\* A copy that takes over the members of copy_table one by one, pointers
\* included.
Table_copy_Memberwise(copy_table) ==
    [made |-> TRUE, at |-> SourceAt, t |-> copy_table]

\* OrderedHashTable(const OrderedHashTable& copy_table): the delegating
\* constructor allocates the arrays, the loop fills them.
Table_copy(copy_table) ==
    [made |-> TRUE,
     at   |-> FreshAt,
     t    |-> CopyFill(OrderedHashTable(copy_table.size_), copy_table,
                       KeySeq(copy_table), 1)]

\* The members of the table whose pointers are at, after a call on another
\* table left the table other behind: an array both point to is the one
\* the call wrote.
SeenThrough(mine, at, other, other_at) ==
    [mine EXCEPT
        !.record_arr_ = IF at.record_arr_ = other_at.record_arr_
                        THEN other.record_arr_ ELSE @,
        !.key_list_   = IF at.key_list_ = other_at.key_list_
                        THEN other.key_list_ ELSE @]

\* A call on the source that leaves it as the table t.
OnSource(t) ==
    /\ Becomes(t)
    /\ copy' = IF copy.made
               THEN [copy EXCEPT !.t = SeenThrough(@, copy.at, t, SourceAt)]
               ELSE copy

\* A call on the copy that leaves it as the table t.
OnCopy(t) ==
    /\ copy' = [copy EXCEPT !.t = t]
    /\ Becomes(SeenThrough(This, SourceAt, t, copy.at))

\* OrderedHashTable<int> copy(source);
CopyConstruct ==
    /\ ~copy.made
    /\ copy' = Table_copy(This)
    /\ call' = Call("OrderedHashTable", EmptyString, DefaultValue, DefaultValue,
                    "", <<>>, "copy")
    /\ UNCHANGED <<size_, record_count_, record_arr_, key_list_>>
    /\ UNCHANGED <<list, sorting, deque, heap>>

SourceInsert ==
    \E key \in ActiveKeys, value \in CopyVals :
        \E t \in {Table_insert(This, key, value)} :
            /\ OnSource(t)
            /\ call' = Call("insert", key, value, DefaultValue, "", <<>>, "on source")
            /\ UNCHANGED <<list, sorting, deque, heap>>

SourceErase ==
    \E key \in ActiveKeys :
        \E r \in {Table_erase(This, key)} :
            /\ OnSource(r.t)
            /\ call' = Call("erase", key, DefaultValue, DefaultValue, r.raised, <<>>,
                            "on source")
            /\ UNCHANGED <<list, sorting, deque, heap>>

\* The clients of the two tables pop the keys they work with: an active
\* key, or the last filler key of a table that holds all of them.
PopStart(t) ==
    /\ t.key_list_.length_ > 0
    /\ \/ Table_pop(t).key \in ActiveKeys
       \/ t.key_list_.length_ >= NumFillers
SourcePop ==
    /\ PopStart(This)
    /\ \E r \in {Table_pop(This)} :
           /\ OnSource(r.t)
           /\ call' = Call("pop", r.key, DefaultValue, r.ret, "", <<>>, "on source")
    /\ UNCHANGED <<list, sorting, deque, heap>>

CopyInsert ==
    /\ copy.made
    /\ \E key \in ActiveKeys, value \in CopyVals :
           \E t \in {Table_insert(copy.t, key, value)} :
               /\ OnCopy(t)
               /\ call' = Call("insert", key, value, DefaultValue, "", <<>>, "on copy")
    /\ UNCHANGED <<list, sorting, deque, heap>>

CopyErase ==
    /\ copy.made
    /\ \E key \in ActiveKeys :
           \E r \in {Table_erase(copy.t, key)} :
               /\ OnCopy(r.t)
               /\ call' = Call("erase", key, DefaultValue, DefaultValue, r.raised,
                               <<>>, "on copy")
    /\ UNCHANGED <<list, sorting, deque, heap>>

CopyPop ==
    /\ copy.made
    /\ PopStart(copy.t)
    /\ \E r \in {Table_pop(copy.t)} :
           /\ OnCopy(r.t)
           /\ call' = Call("pop", r.key, DefaultValue, r.ret, "", <<>>, "on copy")
    /\ UNCHANGED <<list, sorting, deque, heap>>

NextCopy ==
    \/ CopyConstruct
    \/ SourceInsert
    \/ SourceErase
    \/ SourcePop
    \/ CopyInsert
    \/ CopyErase
    \/ CopyPop

SpecCopy == InitCopy /\ [][NextCopy]_vars

(***************************************************************************)
(* hash_function on its own: keys and table sizes in, bucket index out.     *)
(***************************************************************************)

\* "hLHdpk": the loop of hash_function leaves key_int = 0.
KeyZero == <<104, 76, 72, 100, 112, 107>>
\* "rzxaaef": key_int = 1886805846, whose product with HASH_CONST_D rounds
\* to a whole number.
KeyWhole == <<114, 122, 120, 97, 97, 101, 102>>

HashKeys == Keys \cup {EmptyString, KeyZero, KeyWhole}

\* hash_function before the cast, for the keys and sizes hashed here.
HashWide ==
    [a \in HashKeys \X TableSizes |->
        IF a[1] \in {KeyZero, KeyWhole} THEN HashReal(key_int(a[1]), a[2])
        ELSE HashOf[a]] @@ <<>>

\* static_cast<uint64_t>(h) of the double h.  A negative h is outside of
\* what uint64_t holds and the conversion is undefined: builds give
\* 2^64 - 1 (truncation to a signed integer, reinterpreted) or 0 (a
\* saturating conversion).
HashCast(h) == IF h >= 0 THEN {h} ELSE {0, SIZE_MAX}

\* The size hash_function works with: this->size_ when arr_size is 0.
HashSize(arr_size) == IF arr_size = 0 THEN size_ ELSE arr_size

InitHash == InitList(<<>>)

\* The values of the parameter arr_size: 0, its default, or a table size.
HashSizes == TableSizes \cup {0}

\* hash_function(key, arr_size) is called and returns hash.
HashCall ==
    /\ \E key \in HashKeys, arr_size \in HashSizes :
           \E hash \in HashCast(HashWide[<<key, HashSize(arr_size)>>]) :
               call' = Call("hash_function", key, arr_size, hash, "", <<>>, "")
    /\ UNCHANGED <<list, sorting, deque>>
    /\ TableIdle

NextHash == HashCall

SpecHash == InitHash /\ [][NextHash]_vars

(***************************************************************************)
(* Observations the properties are stated with.                             *)
(***************************************************************************)
\* *this after the step.
ThisNext == [size_ |-> size_', record_count_ |-> record_count_',
             record_arr_ |-> record_arr_', key_list_ |-> key_list_']

TableUnchanged == UNCHANGED <<size_, record_count_, record_arr_, key_list_>>

\* Every Record held by a bucket: <<bucket, place in the bucket, Record>>.
Entries(t) ==
    UNION {LET vs == Values(t.record_arr_[i])
           IN  {<<i, j, vs[j]>> : j \in 1..Len(vs)} : i \in DOMAIN t.record_arr_}

\* The keys of keys() as a set.
KeySet(t) == LET ks == KeySeq(t) IN {ks[i] : i \in 1..Len(ks)}

\* The text holds the word as a substring.
Contains(text, word) ==
    \E i \in 0..(Len(text) - Len(word)) : SubSeq(text, i + 1, i + Len(word)) = word

\* A sequence of keys without the key.
Without(keys, key) == LET Other(x) == x # key IN SelectSeq(keys, Other)

\* C1: in every state between calls of insert, erase and pop (pop on a table
\* that holds a key), the keys stored in the buckets are exactly the keys of
\* the key list, no key is twice in the key list, and no key has two Records
\* in the buckets.
C1_BucketsMatchKeyList ==
    LET es == Entries(This)
        ks == KeySeq(This)
    IN  /\ {e[3].key_ : e \in es} = KeySet(This)
        /\ \A i, j \in 1..Len(ks) : ks[i] = ks[j] => i = j
        /\ \A e1, e2 \in es : e1[3].key_ = e2[3].key_ => e1 = e2

\* A pop has left "f" behind in a table that grew and lost "k2" to erase.
C1_Witness ==
    /\ call.op = "pop"
    /\ call.key = KeyAv
    /\ size_ = GROWTH_RATE * MIN_TABLE_SIZE
    /\ KeyF \in KeySet(This)
    /\ FillerKey(2) \notin KeySet(This)
    /\ FillerKey(3) \in KeySet(This)

C3_PopReturnsLast ==
    [][call'.op = "pop" =>
        LET ks   == KeySeq(This)
            last == ks[Len(ks)]
        IN  /\ call'.ret = Table_get(This, last)
            /\ KeySeq(ThisNext) = SubSeq(ks, 1, Len(ks) - 1)
            /\ {e[3] : e \in Entries(ThisNext)}
                   = {e[3] : e \in Entries(This)} \ {Record(last, call'.ret)}
            /\ Table_get(ThisNext, last) = DefaultValue
            /\ Table_length(ThisNext) = Table_length(This) - 1]_vars

\* pop() took "av" out of the bucket it shares with "f", after a resize and
\* the erase of "k2".
C3_Witness ==
    /\ call.op = "pop"
    /\ call.key = KeyAv
    /\ call.ret = MaxVal
    /\ size_ = GROWTH_RATE * MIN_TABLE_SIZE
    /\ Table_get(This, KeyF) = 1
    /\ FillerKey(2) \notin KeySet(This)

\* C4: an insert of a new key that runs expand() leaves get and operator[]
\* of every key present before with the same result, and keys() is the old
\* keys() with the new key appended.
C4_ResizeTransparent ==
    [][call'.op = "insert" /\ call'.path = "expand" =>
        /\ \A k \in KeySet(This) :
               /\ Table_get(ThisNext, k) = Table_get(This, k)
               /\ Table_subscript(ThisNext, k) = Table_subscript(This, k)
               /\ Table_subscript(ThisNext, k).raised = ""
        /\ KeySeq(ThisNext) = Append(KeySeq(This), call'.key)]_vars

\* The insert of "av" expanded a table that holds "f" in the same bucket.
C4_Witness ==
    /\ call.op = "insert"
    /\ call.path = "expand"
    /\ call.key = KeyAv
    /\ size_ > MIN_TABLE_SIZE
    /\ Table_get(This, KeyF) = MaxVal
    /\ hash_function(This, KeyF, 0) = hash_function(This, KeyAv, 0)

\* C5: in the state insert(k, v) returns in, get(k) is v, whether k was
\* absent or present and whether or not the insert expanded the table.
C5_InsertThenGet ==
    call.op = "insert" => Table_get(This, call.key) = call.value

\* The insert of "f" expanded the table, and get("f") is the value inserted.
C5_Witness ==
    /\ call.op = "insert"
    /\ call.path = "expand"
    /\ call.key = KeyF
    /\ call.value = MaxVal
    /\ Table_get(This, KeyF) = MaxVal

\* C6: insert(k, v2) of a key that keys() holds changes neither length(),
\* nor keys(), nor the table size, nor the value of any other key.
C6_InsertPresentOverwrites ==
    [][call'.op = "insert" /\ call'.key \in KeySet(This) =>
        /\ Table_length(ThisNext) = Table_length(This)
        /\ KeySeq(ThisNext) = KeySeq(This)
        /\ size_' = size_
        /\ \A k \in KeySet(This) \ {call'.key} :
               Table_get(ThisNext, k) = Table_get(This, k)]_vars

\* "f" got a new value while "av" sits in the same bucket with another one.
C6_Witness ==
    /\ call.op = "insert"
    /\ call.path = "overwrite"
    /\ call.key = KeyF
    /\ call.value = MaxVal
    /\ Table_get(This, KeyAv) = 1
    /\ KeySeq(This)[Len(KeySeq(This))] = KeyAv

\* C7: erase(k) of a key that keys() holds decrements length(), removes k
\* from keys() and keeps the order of the rest; afterwards get(k) is the
\* default, operator[] of k throws KeyException, and every other key has
\* the value it had.
C7_ErasePresent ==
    [][call'.op = "erase" /\ call'.key \in KeySet(This) =>
        /\ Table_length(ThisNext) = Table_length(This) - 1
        /\ KeySeq(ThisNext) = Without(KeySeq(This), call'.key)
        /\ Table_get(ThisNext, call'.key) = DefaultValue
        /\ Table_subscript(ThisNext, call'.key).raised = "KeyException"
        /\ \A k \in KeySet(This) \ {call'.key} :
               Table_get(ThisNext, k) = Table_get(This, k)]_vars

\* "k2" was erased from between its neighbours in a loaded table.
C7_Witness ==
    /\ call.op = "erase"
    /\ call.path = "found"
    /\ call.key = FillerKey(2)
    /\ Len(KeySeq(This)) >= NumFillers - NearEnds
    /\ KeySeq(This)[1] = FillerKey(1)
    /\ KeySeq(This)[2] = FillerKey(3)
    /\ KeyF \in KeySet(This)

\* C8: erase(k) of a key that keys() does not hold throws nothing and
\* changes nothing of the table.
C8_EraseAbsentNoOp ==
    [][call'.op = "erase" /\ call'.key \notin KeySet(This) =>
        /\ call'.raised = ""
        /\ TableUnchanged]_vars

\* erase("av") scanned the bucket that holds "f" and found nothing.
C8_Witness ==
    /\ call.op = "erase"
    /\ call.path = "absent"
    /\ call.key = KeyAv
    /\ KeyF \in KeySet(This)
    /\ record_count_ > 1

\* C9: operator[] of a key that keys() does not hold throws KeyException with
\* a message that contains the key, and changes nothing of the table.
C9_SubscriptAbsentThrows ==
    [][call'.op = "operator[]" /\ call'.key \notin KeySet(This) =>
        /\ call'.raised = "KeyException"
        /\ Contains(call'.message, call'.key)
        /\ call'.key \notin KeySet(ThisNext)
        /\ TableUnchanged]_vars

\* operator[] of "av" threw on a table that holds "f" in the bucket scanned.
C9_Witness ==
    /\ call.op = "operator[]"
    /\ call.raised = "KeyException"
    /\ call.key = KeyAv
    /\ Contains(call.message, KeyAv)
    /\ KeyF \in KeySet(This)

\* C10: get changes nothing of the table and throws nothing, and for a key
\* that keys() does not hold it returns the default value.
C10_GetAbsentDefault ==
    [][call'.op = "get" =>
        /\ TableUnchanged
        /\ call'.raised = ""
        /\ call'.key \notin KeySet(This) => call'.ret = DefaultValue]_vars

\* get("av") returned the default from the bucket that holds "f".
C10_Witness ==
    /\ call.op = "get"
    /\ call.key = KeyAv
    /\ call.ret = DefaultValue
    /\ KeyAv \notin KeySet(This)
    /\ KeyF \in KeySet(This)

\* C11: pop() of a table that holds no key returns the default value, throws
\* nothing and reads no Record that does not exist, and leaves length() 0 and
\* keys() empty.
C11_PopEmptySilent ==
    PoppedEmpty =>
        /\ call.raised = ""
        /\ call.ret = DefaultValue
        /\ Table_length(This) = 0
        /\ KeySeq(This) = <<>>

\* C12: in every state between calls of insert, erase and pop (pop on a
\* table that holds a key), keys()->length() equals length().
C12_KeysLengthIsLength ==
    Table_keys(This).length_ = Table_length(This)

\* An erase of an absent key followed an insert of a present key, a resize
\* and a pop.
C12_Witness ==
    /\ call.op = "erase"
    /\ call.path = "absent"
    /\ call.key = KeyAv
    /\ size_ = GROWTH_RATE * MIN_TABLE_SIZE
    /\ Table_get(This, KeyF) = MaxVal
    /\ Table_length(This) = NumFillers - NearEnds
    /\ Len(KeySeq(This)) = NumFillers - NearEnds

\* C13: a constructed table has size_ = max(64, size asked for); size_ is at
\* least 64 in every state; every step leaves size_ or multiplies it by
\* GROWTH_RATE, and the steps of erase and pop leave it.
C13_SizeGrowsByDoubling ==
    /\ [](size_ >= MIN_TABLE_SIZE)
    /\ [](call.op = "OrderedHashTable" =>
            size_ = IF call.value > MIN_TABLE_SIZE THEN call.value ELSE MIN_TABLE_SIZE)
    /\ [][/\ size_' \in {size_, GROWTH_RATE * size_}
          /\ call'.op \in {"erase", "pop"} => size_' = size_]_vars

\* The table built with the odd capacity has grown, and a pop left its size.
C13_Witness ==
    /\ call.op = "pop"
    /\ size_ = GROWTH_RATE * MaxCap
    /\ MaxCap > MIN_TABLE_SIZE
    /\ record_count_ * MAX_UTIL_PERCENT.den * GROWTH_RATE < MAX_UTIL_PERCENT.num * size_

\* How often a value occurs in a sequence.
Count(values, v) == Cardinality({i \in 1..Len(values) : values[i] = v})

\* Same length and same multiset of values.
IsPermutation(a, b) ==
    /\ Len(a) = Len(b)
    /\ \A v \in Elems : Count(a, v) = Count(b, v)

\* Non-decreasing in the order of <.
NonDecreasing(values) ==
    \A i, j \in 1..Len(values) : i < j => values[i] <= values[j]

\* sort() has returned.
SortReturned == call.op = "sort" /\ call.path = "returned"

\* C14: when a sort() with the natural order returns, the list is
\* non-decreasing and a permutation of what it held when sort() was called,
\* whatever indices partition drew.
C14_SortedPermutation ==
    SortReturned /\ sorting.comp = "nullptr" =>
        /\ NonDecreasing(Values(list))
        /\ IsPermutation(Values(list), sorting.before)
        /\ list.length_ = Len(sorting.before)

\* A list of MaxLen elements in decreasing order with a repeated value has
\* been sorted.
C14_Witness ==
    /\ SortReturned
    /\ sorting.comp = "nullptr"
    /\ Len(sorting.before) = MaxLen
    /\ sorting.before[1] = MaxElem
    /\ sorting.before[MaxLen] = 1
    /\ sorting.before[2] = sorting.before[3]
    /\ Values(list)[1] = 1
    /\ Values(list) # sorting.before

\* C15: a partition of a range low < high never returns high, so each call
\* of sort works on a smaller range than its caller and sort() terminates
\* for every sequence of indices drawn.
C15_PartitionBelowHigh ==
    (sorting.comp = "nullptr" /\ sorting.split # <<>>) =>
        (sorting.split[1] < sorting.split[2] => sorting.split[3] < sorting.split[2])

\* The list sort() was called on was empty.
SortOfEmpty == call.op = "sort" /\ sorting.before = <<>>

\* C16: sort() with default arguments on an empty list returns, throws
\* nothing, reads no element, and leaves the list empty.
C16_SortEmptyNoOp ==
    SortOfEmpty =>
        /\ call.raised = ""
        /\ list = EmptyList

\* C17 as stated: with a comparator that returns any negative value for
\* "before", zero for "equal" and any positive value for "after", a sort()
\* that returns leaves the list non-decreasing.
C17_AnySignComparatorSorts ==
    SortReturned /\ sorting.comp \in Comparators => NonDecreasing(Values(list))

\* C17 as amended: with a comparator that returns exactly -1 for "before", 0
\* for "equal" and 1 for "after", a sort() that returns leaves the list
\* non-decreasing and a permutation of what it held.
C17_SignComparatorSorts ==
    SortReturned /\ sorting.comp = "sign" =>
        /\ NonDecreasing(Values(list))
        /\ IsPermutation(Values(list), sorting.before)

\* A list of MaxLen elements that began with its largest value and ended
\* with its smallest has been sorted with the comparator.
C17_Witness ==
    /\ SortReturned
    /\ sorting.comp = "sign"
    /\ Len(sorting.before) = MaxLen
    /\ sorting.before[1] = MaxElem
    /\ sorting.before[MaxLen] = 1
    /\ Values(list)[1] = 1
    /\ Values(list)[MaxLen] = MaxElem

\* sort() with default arguments is running or has ended on a list that was
\* non-empty and non-decreasing when sort() was called.
SortOfSorted ==
    /\ call.op = "sort"
    /\ sorting.comp = "nullptr"
    /\ sorting.before # <<>>
    /\ NonDecreasing(sorting.before)

\* C18: sort() on a non-empty list that is already non-decreasing leaves the
\* element sequence unchanged for every pivot choice (after every partition
\* step and when sort() returns), so a second sort() changes nothing.
C18_SortedStaysUnchanged ==
    SortOfSorted => (call.raised = "" /\ Values(list) = sorting.before)

\* sort() has returned on a non-decreasing list of MaxLen elements, not all
\* equal, after at least one partition.
C18_Witness ==
    /\ SortOfSorted
    /\ SortReturned
    /\ Len(sorting.before) = MaxLen
    /\ sorting.before[1] < sorting.before[MaxLen]
    /\ sorting.split # <<>>

\* The values list[0], ..., list[length - 1], each read by operator[]; an
\* index whose read throws or goes through a null pointer gives -1.
ReadAll(L) ==
    [i \in 1..L.length_ |->
        LET r == List_subscript(L, i - 1)
        IN  IF r.raised = "" THEN r.ret ELSE -1]

\* C19: over every sequence of push_back, push_front, pop_back and pop_front,
\* the length is the number of pushes minus the number of pops made on a
\* non-empty list (each push adds one, each such pop takes one, a pop on the
\* empty list none), the elements read at 0..length-1 are those of the
\* reference deque, and each pop on a non-empty list returns the reference's
\* front (pop_front) or back (pop_back).
C19_RefinesDeque ==
    /\ [](list.length_ = Len(deque) /\ ReadAll(list) = deque)
    /\ [][/\ call'.op \in {"push_back", "push_front"}
              => list'.length_ = list.length_ + 1
          /\ call'.op \in {"pop_back", "pop_front"}
              => list'.length_ = IF deque = <<>> THEN 0 ELSE list.length_ - 1
          /\ call'.op = "pop_front" /\ deque # <<>> => call'.ret = Head(deque)
          /\ call'.op = "pop_back" /\ deque # <<>>
              => call'.ret = deque[Len(deque)]
          /\ call'.op = "operator[]" /\ call'.value < Len(deque)
              => call'.raised = "" /\ call'.ret = deque[call'.value + 1]]_vars

\* pop_front has returned the front of a full list built by pushes at both
\* ends, leaving elements that differ.
C19_Witness ==
    /\ call.op = "pop_front"
    /\ call.path = "popped"
    /\ call.ret = MaxElem
    /\ list.length_ = MaxDeque - 1
    /\ list.head_ > list.tail_
    /\ deque[1] < deque[Len(deque)]
    /\ ReadAll(list) = deque

\* C20: at(index) and operator[] throw std::out_of_range for every
\* index >= length in every state of the list, the empty one included; they
\* never return or dereference a null node.
C20_OutOfRangeRaised ==
    call.op \in {"at", "operator[]"} /\ call.value >= list.length_
        => call.raised = "out_of_range"

\* The sequence without its i-th element (i in 1..Len).
RemoveAt(values, i) ==
    SubSeq(values, 1, i - 1) \o SubSeq(values, i + 1, Len(values))

\* The sequence with v put before its i-th element (i in 1..Len).
InsertAt(values, i, v) ==
    SubSeq(values, 1, i - 1) \o <<v>> \o SubSeq(values, i, Len(values))

\* C21: erase(i) with i < length throws nothing and removes exactly the
\* element at index i: the length goes down by one, the elements at indices
\* below i stay and each element at an index j > i moves to j - 1 (i = 0,
\* i = length - 1 and the one-element list included).
C21_EraseShifts ==
    [][call'.op = "erase" /\ call'.value < list.length_
          => /\ call'.raised = ""
             /\ list'.length_ = list.length_ - 1
             /\ ReadAll(list') = RemoveAt(ReadAll(list), call'.value + 1)]_vars

\* erase(1) has taken the middle element out of a full list whose remaining
\* two elements differ.
C21_Witness ==
    /\ call.op = "erase"
    /\ call.value = 1
    /\ call.raised = ""
    /\ list.length_ = MaxDeque - 1
    /\ ReadAll(list)[1] # ReadAll(list)[list.length_]

\* C22: erase(index) with index >= length is a no-op on an empty and on a
\* non-empty list: nothing is thrown, the length and the elements stay.
C22_EraseOutOfRangeNoOp ==
    [][call'.op = "erase" /\ call'.value >= list.length_
          => call'.raised = "" /\ list' = list]_vars

\* C23: insert(index, v) with index >= length behaves as push_back(v) on an
\* empty and on a non-empty list: nothing is thrown, v is the last element,
\* the length goes up by one and the elements before keep their indices.
C23_InsertPastEndAppends ==
    [][call'.op = "insert" /\ call'.value >= list.length_
          => /\ call'.raised = ""
             /\ list' = List_push_back(list, call'.ret)]_vars

\* C24: pop_front and pop_back on an empty list throw nothing, return the
\* default value of the element type and leave the list as it was: length 0
\* and head and tail null.
C24_PopEmptyReturnsDefault ==
    call.op \in {"pop_front", "pop_back"} /\ call.path = "empty"
        => /\ call.raised = ""
           /\ call.ret = 0
           /\ list.length_ = 0
           /\ list.head_ = Null
           /\ list.tail_ = Null
           /\ list = EmptyList

\* pop_front has been called on an empty list.
C24_Witness ==
    /\ call.op = "pop_front"
    /\ call.path = "empty"
    /\ deque = <<>>

\* C30: insert(index, v) with 0 < index < length puts v at index, leaves the
\* elements below index, moves each element at j >= index to j + 1 and adds
\* one to the length; insert(0, v) on a non-empty list does what
\* push_front(v) does.
C30_InsertShifts ==
    [][/\ call'.op = "insert" /\ 0 < call'.value /\ call'.value < list.length_
          => /\ call'.raised = ""
             /\ list'.length_ = list.length_ + 1
             /\ ReadAll(list') =
                    InsertAt(ReadAll(list), call'.value + 1, call'.ret)
       /\ call'.op = "insert" /\ call'.value = 0 /\ list.length_ > 0
          => /\ call'.raised = ""
             /\ list' = List_push_front(list, call'.ret)]_vars

\* insert(1, v) has put v between two elements that differ from it.
C30_Witness ==
    /\ call.op = "insert"
    /\ call.value = 1
    /\ call.raised = ""
    /\ list.length_ = MaxDeque
    /\ ReadAll(list)[2] = call.ret
    /\ ReadAll(list)[1] # call.ret
    /\ ReadAll(list)[3] # call.ret

RECURSIVE BackFrom(_, _)
\* The node pointers met from p along prev_ until null.
BackFrom(L, p) == IF p = Null THEN <<>> ELSE <<p>> \o BackFrom(L, L.node[p].prev_)

\* C26: after any sequence of push_front, push_back, pop_front, pop_back,
\* insert, erase and sort: head.prev and tail.next are null, n.next.prev = n
\* for every node with a successor and n.prev.next = n for every node with a
\* predecessor, the nodes reachable from head along next are length many and
\* so are those reachable from tail along prev, and length = 0 exactly when
\* head and tail are both null.
C26_ListWellLinked ==
    /\ list.head_ # Null => list.node[list.head_].prev_ = Null
    /\ list.tail_ # Null => list.node[list.tail_].next_ = Null
    /\ \A n \in DOMAIN list.node :
           /\ list.node[n].next_ # Null
                  => /\ list.node[n].next_ \in DOMAIN list.node
                     /\ list.node[list.node[n].next_].prev_ = n
           /\ list.node[n].prev_ # Null
                  => /\ list.node[n].prev_ \in DOMAIN list.node
                     /\ list.node[list.node[n].prev_].next_ = n
    /\ Len(IterFrom(list, list.head_)) = list.length_
    /\ Len(BackFrom(list, list.tail_)) = list.length_
    /\ list.length_ = 0 <=> (list.head_ = Null /\ list.tail_ = Null)

\* sort() has returned on a full list that it reordered and whose nodes,
\* after pushes at both ends, pops, inserts or erases, lie in memory in
\* another order than in the list.
C26_Witness ==
    /\ SortReturned
    /\ list.length_ = MaxDeque
    /\ list.head_ > list.tail_
    /\ sorting.before # Values(list)

\* C25: hash_function(key, size) returns a bucket index in [0, size) for
\* every key (every value of the 32-bit accumulator, 0 included) and every
\* table size >= 64, and every other call with the same key and size
\* returns the same index.
C25_HashInRange ==
    call.op = "hash_function" =>
        /\ call.ret \in 0..(HashSize(call.value) - 1)
        /\ \A again \in HashCast(HashWide[<<call.key, HashSize(call.value)>>]) :
               again = call.ret

\* C27: expand() (run by an insert of a new key) multiplies size_ by
\* GROWTH_RATE and changes neither the key list nor record_count_ (they are
\* what the insert made them before it called expand); afterwards every key
\* of the key list has exactly one Record, in bucket hash(k, new size), with
\* the value the key had right before the expand.
C27_ExpandRehashesAll ==
    [][call'.op = "insert" /\ call'.path = "expand" =>
        /\ size_' = GROWTH_RATE * size_
        /\ KeySeq(ThisNext) = Append(KeySeq(This), call'.key)
        /\ record_count_' = record_count_ + 1
        /\ LET es == Entries(ThisNext)
           IN  \A k \in KeySet(ThisNext) :
                   LET mine == {e \in es : e[3].key_ = k}
                   IN  /\ Cardinality(mine) = 1
                       /\ \A e \in mine :
                              /\ e[1] = hash_function(ThisNext, k, 0)
                              /\ e[3].value_ = IF k = call'.key THEN call'.value
                                               ELSE Table_get(This, k)]_vars

\* The insert of "f" expanded a table that holds "av" and has lost "k2".
C27_Witness ==
    /\ call.op = "insert"
    /\ call.path = "expand"
    /\ call.key = KeyF
    /\ size_ = GROWTH_RATE * MIN_TABLE_SIZE
    /\ Table_get(This, KeyAv) = 1
    /\ FillerKey(2) \notin KeySet(This)

\* C28: after any sequence of insert, erase, pop (of a table that holds a
\* key) and the expands they run, every Record with key k is in bucket
\* hash(k, size_) for the current size_, so the scan of that one bucket by
\* get, operator[], insert and erase finds every key that is present.
C28_RecordsInHashedBucket ==
    LET es == Entries(This)
    IN  /\ \A e \in es : e[1] = hash_function(This, e[3].key_, 0)
        /\ \A k \in KeySet(This) :
               /\ FindRecord(record_arr_[hash_function(This, k, 0)], k).ptr # Null
               /\ Table_subscript(This, k).raised = ""

\* erase took "k2" out of a table that grew and holds "f" and "av", which
\* share a bucket.
C28_Witness ==
    /\ call.op = "erase"
    /\ call.key = FillerKey(2)
    /\ size_ = GROWTH_RATE * MIN_TABLE_SIZE
    /\ KeyF \in KeySet(This)
    /\ KeyAv \in KeySet(This)
    /\ hash_function(This, KeyF, 0) = hash_function(This, KeyAv, 0)

\* The place of the key in the sequence of keys (0 when it is not there).
PlaceOf(keys, key) ==
    IF \E i \in 1..Len(keys) : keys[i] = key
    THEN CHOOSE i \in 1..Len(keys) : keys[i] = key ELSE 0

\* C29: after any sequence of insert, erase, pop (of a table that holds a
\* key) and expand, the Records of each bucket stand in the order their
\* keys have in the key list; so the Record pop() takes from the back of the
\* bucket is the one of the key it took from the back of the key list.
C29_BucketOrderIsKeyOrder ==
    /\ [](LET es == Entries(This)
              ks == KeySeq(This)
          IN  \A e1, e2 \in es :
                  e1[1] = e2[1] /\ e1[2] < e2[2]
                      => PlaceOf(ks, e1[3].key_) < PlaceOf(ks, e2[3].key_))
    /\ [][call'.op = "pop" =>
            LET vs == Values(record_arr_[hash_function(This, call'.key, 0)])
            IN  /\ vs # <<>>
                /\ vs[Len(vs)].key_ = call'.key
                /\ vs[Len(vs)].value_ = call'.ret]_vars

\* pop() took "f" from the back of the bucket where "av", inserted before
\* it, stays.
C29_Witness ==
    /\ call.op = "pop"
    /\ call.key = KeyF
    /\ size_ = MIN_TABLE_SIZE
    /\ Table_get(This, KeyAv) = MaxVal
    /\ Values(record_arr_[hash_function(This, KeyAv, 0)]) # <<>>
    /\ hash_function(This, KeyF, 0) = hash_function(This, KeyAv, 0)

\* The node at(index) returns, or null when it throws.
NodeAt(L, index) ==
    LET a == List_at(L, index) IN IF a.raised = "" THEN a.ptr ELSE Null

\* C31: the cursor that started at begin() is, after k increments, on the
\* node of index k for k < length and equal to end() for k = length, so the
\* walk visits exactly length elements in the order 0..length-1; the cursor
\* that started at rbegin() is after k decrements on the node of index
\* length-1-k and equal to rend() for k = length; ++ and -- on a null cursor
\* leave it null.  This holds after every sequence of pushes, pops, inserts
\* and erases made before the walk.
C31_IteratorWalksInOrder ==
    /\ [](call.op \in {"begin", "++"} =>
              /\ call.value <= list.length_
              /\ call.ret = IF call.value < list.length_
                            THEN NodeAt(list, call.value) ELSE Null
              /\ call.ret # Null =>
                     list.node[call.ret].value_ = ReadAll(list)[call.value + 1])
    /\ [](call.op \in {"rbegin", "--"} =>
              /\ call.value <= list.length_
              /\ call.ret = IF call.value < list.length_
                            THEN NodeAt(list, list.length_ - 1 - call.value)
                            ELSE Null
              /\ call.ret # Null =>
                     list.node[call.ret].value_
                         = ReadAll(list)[list.length_ - call.value])
    /\ [][call.op \in IteratorCalls /\ call.ret = Null
              /\ call'.op \in {"++", "--"} => call'.ret = Null]_vars

\* The cursor from rbegin() has reached rend() after MaxDeque decrements on
\* a full list whose nodes lie in memory in another order than in the list.
C31_Witness ==
    /\ call.op = "--"
    /\ call.value = MaxDeque
    /\ call.ret = Null
    /\ list.length_ = MaxDeque
    /\ list.head_ > list.tail_
    /\ ReadAll(list)[1] # ReadAll(list)[MaxDeque]

\* The last index sort(low, high) works on: min(high, length - 1).
PartHigh == IF sorting.range[2] > Len(sorting.before) - 1
            THEN Len(sorting.before) - 1 ELSE sorting.range[2]

\* The values at the indices lo..hi of the sequence (empty when lo > hi).
Slice(values, lo, hi) == SubSeq(values, lo + 1, hi + 1)

\* C35: sort(low, high) with low <= high changes only the positions
\* low..min(high, length-1): at every step the elements below low and above
\* min(high, length-1) are the ones the list held at the call; when the call
\* returns, the positions low..min(high, length-1) hold a non-decreasing
\* permutation of what they held; and a call with low >= min(high, length-1)
\* on a non-empty list changes nothing.
C35_SortPartFrame ==
    call.op = "sort" =>
        LET low == sorting.range[1]
            now == Values(list)
        IN  /\ Len(now) = Len(sorting.before)
            /\ \A i \in 1..Len(now) :
                   (i - 1 < low \/ i - 1 > PartHigh) => now[i] = sorting.before[i]
            /\ SortReturned /\ low <= PartHigh =>
                   /\ NonDecreasing(Slice(now, low, PartHigh))
                   /\ IsPermutation(Slice(now, low, PartHigh),
                                    Slice(sorting.before, low, PartHigh))
            /\ sorting.before # <<>> /\ low >= PartHigh =>
                   call.raised = "" /\ now = sorting.before

\* sort(1, MaxLen - 2) has returned on a full list: it reordered the middle
\* and left a largest first and a smallest last element where they were.
C35_Witness ==
    /\ SortReturned
    /\ sorting.range = <<1, MaxLen - 2>>
    /\ Len(sorting.before) = MaxLen
    /\ sorting.before[1] = MaxElem
    /\ sorting.before[MaxLen] = 1
    /\ Values(list) # sorting.before

\* C32: every Record the table has allocated and not deleted is held by
\* exactly one bucket of the current array: erase, pop, overwrite and expand
\* leave no allocated Record outside the buckets, and none is in two.
C32_NoRecordAstray ==
    heap.records = Cardinality(Entries(This))

\* C33: expand() deletes each of the bucket Lists of the old array before it
\* adopts the new one: after an expand the bucket Lists allocated are the
\* size_ Lists of the new array.
C33_ExpandDeletesOldLists ==
    call.op = "insert" /\ call.path = "expand" => heap.lists = size_

\* What a client sees of a table: size, length(), keys() in order and the
\* value of every key.
Seen(t) ==
    [size |-> t.size_, length |-> Table_length(t), keys |-> KeySeq(t),
     values |-> [k \in Keys |-> Table_get(t, k)]]

\* C34: a table copy-constructed from a source has the size, the keys() in
\* the same order and the value of every key of the source; later insert,
\* erase and pop calls on the copy change nothing of the source's keys(),
\* length() and values, and calls on the source nothing of the copy's.
C34_CopyIsEqualAndApart ==
    /\ [](call.path = "copy" => Seen(copy.t) = Seen(This))
    /\ [][/\ call'.path = "on copy" => Seen(ThisNext) = Seen(This)
          /\ call'.path = "on source" /\ copy.made
                 => Seen(copy'.t) = Seen(copy.t)]_vars

\* pop() on the copy of a table built with the odd capacity took "f" out;
\* the source still holds "av" and "f" with the values the copy began with.
C34_Witness ==
    /\ copy.made
    /\ call.op = "pop"
    /\ call.path = "on copy"
    /\ call.key = KeyF
    /\ size_ = MaxCap
    /\ copy.t.size_ = MaxCap
    /\ KeySeq(This) = <<KeyAv, KeyF>>
    /\ KeySeq(copy.t) = <<KeyAv>>
    /\ Table_get(This, KeyF) = MaxVal

====
